---------------------------- MODULE Spec2Model ----------------------------
(***************************************************************************)
(* A model of f1rstaid: the web crawler's frontier/visited/checkpoint      *)
(* bookkeeping (src/crawler/crawler.py), the robots policy check           *)
(* is_allowed, and the query assistant's gate get_answer (src/f1rstaid.py).*)
(*                                                                         *)
(* Text is a sequence of one-character strings, so that prefix and         *)
(* substring tests, strip() and lower() are computed and not assumed.      *)
(***************************************************************************)
EXTENDS Integers, Sequences, FiniteSets, TLC

(***************************************************************************)
(* Bounds of the model.                                                    *)
(***************************************************************************)
\* Number of crawler processes run one after another on the same disk.
MaxRuns == 2
\* Longest list of links one fetched page carries.
MaxLinks == 2
\* Longest URL path is_allowed is tried on.
MaxPathLen == 3
\* Longest disallowed and allowed lists is_allowed is tried on.
MaxRules == 2

(***************************************************************************)
(* Text helpers (Python str methods).                                      *)
(***************************************************************************)
\* str.startswith
StartsWith(s, p) ==
    /\ Len(p) <= Len(s)
    /\ SubSeq(s, 1, Len(p)) = p

\* the `in` operator on two strings: substring containment
Contains(s, sub) ==
    \E i \in 0..(Len(s) - Len(sub)) : SubSeq(s, i + 1, i + Len(sub)) = sub

\* Elements of a list, as a set (Python set(list))
SetOf(q) == { q[i] : i \in 1..Len(q) }

(***************************************************************************)
(* URLs, as urlparse splits them: scheme, netloc, path.                    *)
(***************************************************************************)
IsoMitEdu == <<"i", "s", "o", ".", "m", "i", "t", ".", "e", "d", "u">>
WwwCmuEdu == <<"w", "w", "w", ".", "c", "m", "u", ".", "e", "d", "u">>
EvilHost  == <<"i", "s", "o", ".", "m", "i", "t", ".", "e", "d", "u", ".", "e", "v", "i", "l", ".", "i", "o">>
PathOie   == <<"/", "o", "i", "e">>
PathA     == <<"/", "a">>
PathOieA  == <<"/", "o", "i", "e", "/", "a">>

\* The URLs of the model. A URL is a string; urlparse gives its parts.
Seed1    == "https://iso.mit.edu"
Seed2    == "https://www.cmu.edu/oie"
PageA1   == "https://iso.mit.edu/a"
PageA2   == "https://www.cmu.edu/oie/a"
PageEvil == "https://iso.mit.edu.evil.io/a"
MailLink == "mailto:x"
NoUrl    == ""

\* Number of pages of the first seed's site in the web "tree"
NumTreePages == 12

\* The pages of the web "tree": page 1 is the first seed, page n links to
\* the pages 2n and 2n+1
TreeUrl(n) == IF n = 1 THEN Seed1 ELSE "https://iso.mit.edu/t" \o ToString(n)

TreeUrls == { TreeUrl(n) : n \in 1..NumTreePages }

TreeNode(u) == CHOOSE n \in 1..NumTreePages : TreeUrl(n) = u

\* The decimal digits of n, as characters
RECURSIVE Digits(_)
Digits(n) ==
    IF n < 10 THEN << ToString(n) >> ELSE Append(Digits(n \div 10), ToString(n % 10))

\* The number of links from the seed to page n
RECURSIVE Depth(_)
Depth(n) == IF n = 1 THEN 0 ELSE 1 + Depth(n \div 2)

\* urlparse(url): scheme, netloc and path
urlparse(u) ==
    CASE u = Seed1    -> [scheme |-> "https",  netloc |-> IsoMitEdu, path |-> <<>>]
      [] u = Seed2    -> [scheme |-> "https",  netloc |-> WwwCmuEdu, path |-> PathOie]
      [] u = PageA1   -> [scheme |-> "https",  netloc |-> IsoMitEdu, path |-> PathA]
      [] u = PageA2   -> [scheme |-> "https",  netloc |-> WwwCmuEdu, path |-> PathOieA]
      [] u = PageEvil -> [scheme |-> "https",  netloc |-> EvilHost,  path |-> PathA]
      [] u = MailLink -> [scheme |-> "mailto", netloc |-> <<>>,      path |-> <<"x">>]
      [] u \in TreeUrls \ {Seed1} ->
             [scheme |-> "https", netloc |-> IsoMitEdu,
              path |-> <<"/", "t">> \o Digits(TreeNode(u))]
      [] OTHER        -> [scheme |-> "",       netloc |-> <<>>,      path |-> <<>>]

\* base_urls = ["https://iso.mit.edu", "https://www.cmu.edu/oie"]
base_urls == << Seed1, Seed2 >>

NumSeeds == Len(base_urls)
Seeds == 1..NumSeeds

\* What a fetched page may link to (after urljoin): pages of the two sites,
\* a page of another site whose host name contains the first seed's, and a
\* link that is no http(s) link.
LinkTargets == { Seed1, Seed2, PageA1, PageA2, PageEvil, MailLink }

\* The webs the crawler is run on, each named by what its pages link to
WebTargets(w) ==
    CASE w = "sites" -> { Seed1, Seed2, PageA1 }
      [] OTHER       -> LinkTargets

\* Lists of at most n elements of S
RECURSIVE SeqsUpTo(_, _)
SeqsUpTo(S, n) ==
    IF n = 0 THEN { <<>> }
    ELSE LET shorter == SeqsUpTo(S, n - 1)
         IN  shorter \cup { Append(q, x) : q \in { r \in shorter : Len(r) = n - 1 }, x \in S }

(***************************************************************************)
(* Robots policy: is_allowed.                                              *)
(***************************************************************************)
\* for allow_path in allowed: if allow_path != "" and path.startswith(allow_path)
RECURSIVE AnyPrefix(_, _)
AnyPrefix(paths, path) ==
    IF paths = <<>> THEN FALSE
    ELSE IF Head(paths) # <<>> /\ StartsWith(path, Head(paths)) THEN TRUE
    ELSE AnyPrefix(Tail(paths), path)

\* the disallowed list looked at first
path_allowed_disallow_first(path, disallowed, allowed) ==
    IF AnyPrefix(disallowed, path) THEN FALSE
    ELSE TRUE

\* lines 110-117: an allowed prefix wins, else a disallowed prefix rejects
path_allowed(path, disallowed, allowed) ==
    IF AnyPrefix(allowed, path) THEN TRUE
    ELSE IF AnyPrefix(disallowed, path) THEN FALSE
    ELSE TRUE

\* every URL is taken for allowed
is_allowed_always(url, disallowed, allowed) == TRUE

\* is_allowed(url, disallowed, allowed)
is_allowed(url, disallowed, allowed) ==
    path_allowed(urlparse(url).path, disallowed, allowed)

\* The (disallowed, allowed) lists parse_robots_txt may give for a site.
Policies ==
    { [disallowed |-> <<>>, allowed |-> <<>>],
      [disallowed |-> << PathA, PathOie >>, allowed |-> << PathOieA >>] }


(***************************************************************************)
(* The crawler process (src/crawler/crawler.py, module level).             *)
(***************************************************************************)
VARIABLES
    pc,             \* where the crawler process is
    run,            \* number of the crawler process (1 is the first one started)
    base,           \* index in base_urls of the seed being crawled (0: none yet)
    state,          \* the state dict: visited, to_visit, relevant_urls per seed
    visited,        \* the local set visited
    relevant_urls,  \* the local set relevant_urls
    batch_counter,  \* relevant URLs found since the last batch save
    url,            \* the URL popped from the frontier
    page,           \* the response being processed
    robots_mapping, \* per seed, the robots policy of its site
    disk,           \* the checkpoint file crawler_state.json
    ret,            \* where save_checkpoint returns to
    interrupted,    \* a KeyboardInterrupt was raised in this process
    web,            \* the web the crawler is run on
    held,           \* per seed, the URLs the interrupted process held
    resumed,        \* the process before this one was interrupted
    fetched         \* the URLs session.get was called for in this crawl of the
                    \* seed by this process, in the order of the calls

cvars == << pc, run, base, state, visited, relevant_urls, batch_counter, url,
            page, robots_mapping, disk, ret, interrupted, web, held, resumed,
            fetched >>

\* is_allowed, when it is tried on its own
VARIABLE allowed_call

\* urlparse(url).path
a_path == allowed_call.path
\* the list disallowed
a_disallowed == allowed_call.disallowed
\* the list allowed
a_allowed == allowed_call.allowed
\* "call" before the call, "returned" after it
a_pc == allowed_call.pc
\* what is_allowed returned
a_result == allowed_call.result

avars == << allowed_call >>

\* The query assistant (src/f1rstaid.py, F1rstAidApp) and a call of
\* get_answer
VARIABLE answer_call

\* where get_answer is ("idle": not called, "done": returned)
q_pc == answer_call.pc
\* self.qa_chain: "None" until initialize() has set it
qa_chain == answer_call.qa_chain
\* the argument of get_answer
question == answer_call.question
\* what _is_relevant_question returned: relevant and explanation
relevant == answer_call.relevant
explanation == answer_call.explanation
\* the text the relevance LLM answered ("none": not asked)
response == answer_call.response
\* what get_answer returned, or that it raised
answer == answer_call.answer
\* the stages get_answer went through, in order
stages == answer_call.stages
\* where an exception was raised in this call ("none": nowhere)
raised == answer_call.raised

qvars == << answer_call >>

\* is_relevant, when it is tried on its own: where the call is ("idle",
\* "call" before it, "returned" after it), its argument as a list of words,
\* the local score and what it returned
VARIABLE relevance_call

r_pc == relevance_call.pc
content == relevance_call.content
score == relevance_call.score
r_result == relevance_call.result

\* ContentProcessor.validate_content, tried on its own: where the call is,
\* the document (page_content and metadata["type"]) and what it returned
VARIABLE content_call

d_pc == content_call.pc
doc == content_call.doc
d_result == content_call.result

\* ContentProcessor.preprocess_text, tried on its own: where it is ("idle",
\* "call", then "once" and "twice" applied), the text first passed in as a
\* list of fragments, the text (the argument, then what each call returned)
\* and what the first call returned
VARIABLE preprocess_call

p_pc == preprocess_call.pc
p_input == preprocess_call.input
p_text == preprocess_call.text
p_once == preprocess_call.once

\* The index validation run (src/validate_index.py, test_vector_store)
VARIABLE validation_run

\* where test_vector_store is
v_pc == validation_run.pc
\* the position in test_queries of the query at hand
v_query == validation_run.query
\* what similarity_search returned for it
results == validation_run.results
\* what validate_results returned for it, and the message with it
is_valid == validation_run.is_valid
message == validation_run.message
\* what test_vector_store returned ("none": not yet)
v_return == validation_run.returned
\* the exit code of the script ("none": still running)
v_exit == validation_run.exit
\* how many queries were run against the index
v_executed == validation_run.executed
\* how many queries had their results printed
v_reported == validation_run.reported
\* how many queries failed validation
v_failed == validation_run.failed
\* a returned chunk held pre-canonicalization terminology
v_old_terms == validation_run.old_terms

\* The ingestion run (src/ingest.py, main and create_vector_store)
VARIABLES
    ingest_run,     \* main and its locals
    faiss_index     \* the index persisted on disk ("none": no index)

\* where main is
g_pc == ingest_run.pc
\* what load_sources returned
documents == ingest_run.documents
\* the documents validate_content accepted
valid_docs == ingest_run.valid_docs
\* the chunks handed to create_vector_store
chunks == ingest_run.chunks
\* the index in memory ("none": not built)
db == ingest_run.db
\* the position in test_queries of the self-test query
g_query == ingest_run.query
\* the self-test queries that returned results so far
g_hits == ingest_run.hits
\* what main returned ("none": not yet)
g_return == ingest_run.returned
\* the exit code of the script ("none": still running)
g_exit == ingest_run.exit
\* where an exception was raised in main ("none": nowhere)
g_raised == ingest_run.raised
\* the index on disk when the script started
g_before == ingest_run.before

rvars == << relevance_call >>
dvars == << content_call >>
pvars == << preprocess_call >>
ivars == << validation_run >>
gvars == << ingest_run, faiss_index >>

\* An append to the persisted index (src/update_knowledge.py,
\* append_to_vector_store): where the call is, its argument docs, the
\* vector store in memory ("none", "loaded", then "added" with docs in it),
\* the statement that raised ("none": none did), what the call returned
\* ("none": not yet) and the index on disk when it was called
VARIABLE append_run

uvars == << append_run >>

\* A run of load_sources (src/ingest.py): the gathered tasks and their
\* result slots, the list documents and the metrics
VARIABLE load_run

lvars == << load_run >>

\* A request of the chat page (src/f1rstaid.py, process_query) and the
\* session state it works on
VARIABLE query_run

svars == << query_run >>

\* What the crawler leaves alone
outside_crawler == << avars, qvars, rvars, dvars, pvars, ivars, gvars, uvars, lvars, svars >>

\* What is_allowed leaves alone
outside_allowed == << cvars, qvars, rvars, dvars, pvars, ivars, gvars, uvars, lvars, svars >>

\* What the query assistant leaves alone
outside_answer == << cvars, avars, rvars, dvars, pvars, ivars, gvars, uvars, lvars, svars >>

\* What is_relevant leaves alone
outside_relevant == << cvars, avars, qvars, dvars, pvars, ivars, gvars, uvars, lvars, svars >>

\* What validate_content leaves alone
outside_content == << cvars, avars, qvars, rvars, pvars, ivars, gvars, uvars, lvars, svars >>

\* What preprocess_text leaves alone
outside_preprocess == << cvars, avars, qvars, rvars, dvars, ivars, gvars, uvars, lvars, svars >>

\* What the index validation run leaves alone
outside_validation == << cvars, avars, qvars, rvars, dvars, pvars, gvars, uvars, lvars, svars >>

\* What the ingestion run leaves alone
outside_ingest == << cvars, avars, qvars, rvars, dvars, pvars, ivars, uvars, lvars, svars >>

\* What append_to_vector_store leaves alone
outside_append ==
    << cvars, avars, qvars, rvars, dvars, pvars, ivars, ingest_run, lvars, svars >>

\* What load_sources leaves alone
outside_load == << cvars, avars, qvars, rvars, dvars, pvars, ivars, gvars, uvars, svars >>

\* What process_query leaves alone
outside_query == << cvars, avars, qvars, rvars, dvars, pvars, ivars, gvars, uvars, lvars >>

\* RESUME = True
RESUME == TRUE

\* if batch_counter >= 10
BatchSize == 10

NoPage == [kind |-> "none", relevant |-> FALSE, links |-> <<>>]

\* What session.get and the checks on the response can come to: an
\* exception (also the PythonAnywhere one), a status other than 200, or a
\* page with its relevance and its links.
Outcomes(targets) ==
    { [kind |-> "exception", relevant |-> FALSE, links |-> <<>>],
      [kind |-> "non200", relevant |-> FALSE, links |-> <<>>] }
    \cup
    { [kind |-> "ok", relevant |-> r, links |-> l] :
          r \in BOOLEAN, l \in SeqsUpTo(targets, MaxLinks) }

\* The links of page n of the web "tree", as the page lists them
TreeLinks(n) ==
    SelectSeq(<< 2 * n, 2 * n + 1 >>, LAMBDA m : m <= NumTreePages)

\* What the fetch of a URL comes to in the web "tree": every page is
\* relevant but page 2, which may or may not be; the fetch of page 3 may
\* raise; a URL outside the tree gives a page without links
TreeOutcomes(u) ==
    IF u \in TreeUrls
    THEN { [kind |-> "ok", relevant |-> r,
            links |-> [ k \in 1..Len(TreeLinks(TreeNode(u))) |->
                          TreeUrl(TreeLinks(TreeNode(u))[k]) ]] :
               r \in IF TreeNode(u) = 2 THEN BOOLEAN ELSE {TRUE} }
         \cup (IF TreeNode(u) = 3
               THEN { [kind |-> "exception", relevant |-> FALSE, links |-> <<>>] }
               ELSE {})
    ELSE { [kind |-> "ok", relevant |-> TRUE, links |-> <<>>] }

\* What the fetch of url comes to in the web w
PageOutcomes(w, u) ==
    IF w = "tree" THEN TreeOutcomes(u) ELSE Outcomes(WebTargets(w))

\* state = {"visited": {}, "to_visit": {}, "relevant_urls": {}} filled per seed
FreshState ==
    [ visited       |-> [s \in Seeds |-> {}],
      to_visit      |-> [s \in Seeds |-> << base_urls[s] >>],
      relevant_urls |-> [s \in Seeds |-> {}] ]

\* The checkpoint file: missing, truncated (opened for writing, the dump
\* not complete), or a complete JSON snapshot.
NoFile == [kind |-> "none"]
PartialFile == [kind |-> "partial"]
FullFile(st) == [kind |-> "full", state |-> st]

\* The value None of load_checkpoint
None == [kind |-> "None"]

\* load_checkpoint: json.load raises on a truncated file, and None is returned
load_checkpoint(file) ==
    IF file.kind = "full" THEN file.state ELSE None

\* the local list to_visit is the list object held in state["to_visit"][base_url]
to_visit == state.to_visit[base]

\* disallowed, allowed = parse_robots_txt(robots_mapping.get(base_url, ""))
robots == robots_mapping[base]

\* urlparse(base_url).netloc
domain == urlparse(base_urls[base]).netloc

\* visited.add(url) left out
MarkVisitedNot(v, u) == v

\* visited.add(url)
MarkVisited(v, u) == v \cup {u}

\* the test on visited left out
NewLinkAlways(link, v) == TRUE

\* if link not in visited
NewLink(link, v) == link \notin v

\* the links of a page that are appended to the frontier, in page order
FollowLink(link, v) ==
    /\ urlparse(link).scheme \in {"http", "https"}
    /\ Contains(urlparse(link).netloc, domain)
    /\ is_allowed(link, robots.disallowed, robots.allowed)
    /\ NewLink(link, v)

ExtractLinks(links, v) == SelectSeq(links, LAMBDA l : FollowLink(l, v))

\* The URLs a process holds for seed s: its local sets for the seed it is
\* crawling, the state dict's for the others.
Held(s) ==
    IF s = base
    THEN visited \cup SetOf(state.to_visit[s]) \cup relevant_urls
    ELSE state.visited[s] \cup SetOf(state.to_visit[s]) \cup state.relevant_urls[s]

\* The URLs of seed s in a state dict
StateUrls(st, s) == st.visited[s] \cup SetOf(st.to_visit[s]) \cup st.relevant_urls[s]

CrawlInitOn(w) ==
    /\ pc = "start"
    /\ run = 1
    /\ base = 0
    /\ state = FreshState
    /\ visited = {}
    /\ relevant_urls = {}
    /\ batch_counter = 0
    /\ url = NoUrl
    /\ page = NoPage
    /\ robots_mapping \in [Seeds -> Policies]
    /\ disk = NoFile
    /\ ret = "none"
    /\ interrupted = FALSE
    /\ web = w
    /\ held = [s \in Seeds |-> {}]
    /\ resumed = FALSE
    /\ fetched = <<>>

\* the crawler is started on an empty disk
CrawlInit == CrawlInitOn("sites")

\* lines 218-234: the fresh state, replaced by the checkpoint if one loads
Start ==
    /\ UNCHANGED outside_crawler
    /\ UNCHANGED fetched
    /\ pc = "start"
    /\ LET loaded_state == load_checkpoint(disk)
       IN  state' = IF RESUME /\ disk.kind # "none" /\ loaded_state # None
                    THEN loaded_state
                    ELSE FreshState
    /\ pc' = "for"
    /\ UNCHANGED << run, base, visited, relevant_urls, batch_counter, url, page,
                    robots_mapping, disk, ret, interrupted, web, held, resumed >>

\* lines 238-259: the next seed, its robots policy and its local sets
SeedStart ==
    /\ UNCHANGED outside_crawler
    /\ fetched' = <<>>
    /\ pc = "for"
    /\ base < NumSeeds
    /\ base' = base + 1
    /\ visited' = state.visited[base + 1]
    /\ relevant_urls' = state.relevant_urls[base + 1]
    /\ batch_counter' = 0
    /\ pc' = "while"
    /\ UNCHANGED << run, state, url, page, robots_mapping, disk, ret, interrupted,
                    web, held, resumed >>

\* the for loop is over: on to STEP 3
SeedsDone ==
    /\ UNCHANGED outside_crawler
    /\ UNCHANGED fetched
    /\ pc = "for"
    /\ base = NumSeeds
    /\ pc' = "step3"
    /\ UNCHANGED << run, base, state, visited, relevant_urls, batch_counter, url,
                    page, robots_mapping, disk, ret, interrupted, web, held, resumed >>

\* to_visit[0]: the head is returned and stays in the list
PopKeep(q) == [url |-> Head(q), rest |-> q]

\* to_visit.pop(): the last element is taken
PopLast(q) == [url |-> q[Len(q)], rest |-> SubSeq(q, 1, Len(q) - 1)]

\* line 262: to_visit.pop(0): the head is taken out of the list and returned
Pop(q) == [url |-> Head(q), rest |-> Tail(q)]

\* lines 261-262: while to_visit: url = to_visit.pop(0)
While ==
    /\ UNCHANGED outside_crawler
    /\ UNCHANGED fetched
    /\ pc = "while"
    /\ IF to_visit = <<>>
       THEN /\ pc' = "finish"
            /\ UNCHANGED << state, url >>
       ELSE /\ url' = Pop(to_visit).url
            /\ state' = [state EXCEPT !.to_visit[base] = Pop(to_visit).rest]
            /\ pc' = "check"
    /\ UNCHANGED << run, base, visited, relevant_urls, batch_counter, page, robots_mapping,
                    disk, ret, interrupted, web, held, resumed >>

\* lines 263-270: skip a visited or disallowed URL, else visited.add(url)
Check ==
    /\ UNCHANGED outside_crawler
    /\ UNCHANGED fetched
    /\ pc = "check"
    /\ IF url \in visited \/ ~is_allowed(url, robots.disallowed, robots.allowed)
       THEN /\ pc' = "while"
            /\ UNCHANGED visited
       ELSE /\ visited' = MarkVisited(visited, url)
            /\ pc' = "fetch"
    /\ UNCHANGED << run, base, state, relevant_urls, batch_counter, url, page,
                    robots_mapping, disk, ret, interrupted, web, held, resumed >>

\* lines 271-292: the fetch; an exception or a status other than 200 drops the URL
Fetch ==
    /\ UNCHANGED outside_crawler
    /\ fetched' = Append(fetched, url)
    /\ pc = "fetch"
    /\ \E out \in PageOutcomes(web, url) :
          IF out.kind = "ok"
          THEN /\ page' = out
               /\ pc' = "score"
          ELSE /\ pc' = "while"
               /\ UNCHANGED page
    /\ UNCHANGED << run, base, state, visited, relevant_urls, batch_counter, url,
                    robots_mapping, disk, ret, interrupted, web, held, resumed >>

\* lines 294-302: a relevant page's URL joins relevant_urls, once
Score ==
    /\ UNCHANGED outside_crawler
    /\ UNCHANGED fetched
    /\ pc = "score"
    /\ IF page.relevant /\ url \notin relevant_urls
       THEN /\ relevant_urls' = relevant_urls \cup {url}
            /\ batch_counter' = batch_counter + 1
       ELSE UNCHANGED << relevant_urls, batch_counter >>
    /\ pc' = "links"
    /\ UNCHANGED << run, base, state, visited, url, page, robots_mapping, disk, ret,
                    interrupted, web, held, resumed >>

\* lines 304-314: the page's links are appended to the frontier
Links ==
    /\ UNCHANGED outside_crawler
    /\ UNCHANGED fetched
    /\ pc = "links"
    /\ state' = [state EXCEPT !.to_visit[base] = @ \o ExtractLinks(page.links, visited)]
    /\ pc' = "upd317"
    /\ UNCHANGED << run, base, visited, relevant_urls, batch_counter, url, page,
                    robots_mapping, disk, ret, interrupted, web, held, resumed >>

\* lines 317-318: state["visited"][base_url] = list(visited); to_visit is
\* already the list in state
Upd317 ==
    /\ UNCHANGED outside_crawler
    /\ UNCHANGED fetched
    /\ pc = "upd317"
    /\ state' = [state EXCEPT !.visited[base] = visited]
    /\ pc' = "upd319"
    /\ UNCHANGED << run, base, visited, relevant_urls, batch_counter, url, page,
                    robots_mapping, disk, ret, interrupted, web, held, resumed >>

\* line 319: state["relevant_urls"][base_url] = list(relevant_urls)
Upd319 ==
    /\ UNCHANGED outside_crawler
    /\ UNCHANGED fetched
    /\ pc = "upd319"
    /\ state' = [state EXCEPT !.relevant_urls[base] = relevant_urls]
    /\ pc' = "batch"
    /\ UNCHANGED << run, base, visited, relevant_urls, batch_counter, url, page,
                    robots_mapping, disk, ret, interrupted, web, held, resumed >>

\* lines 322-323: save the checkpoint every 10 new relevant URLs
Batch ==
    /\ UNCHANGED outside_crawler
    /\ UNCHANGED fetched
    /\ pc = "batch"
    /\ IF batch_counter >= BatchSize
       THEN /\ pc' = "save_open"
            /\ ret' = "batch"
       ELSE /\ pc' = "while"
            /\ UNCHANGED ret
    /\ UNCHANGED << run, base, state, visited, relevant_urls, batch_counter, url,
                    page, robots_mapping, disk, interrupted, web, held, resumed >>

\* lines 328-330 left out
FinalStateStale(st, b, v, r) == st

\* lines 328-330: the state dict takes the seed's local sets
FinalState(st, b, v, r) ==
    [st EXCEPT !.visited[b] = v, !.relevant_urls[b] = r]

\* lines 326-331: the seed's frontier is empty; its state is saved
Finish ==
    /\ UNCHANGED outside_crawler
    /\ UNCHANGED fetched
    /\ pc = "finish"
    /\ state' = FinalState(state, base, visited, relevant_urls)
    /\ pc' = "save_open"
    /\ ret' = "for"
    /\ UNCHANGED << run, base, visited, relevant_urls, batch_counter, url, page,
                    robots_mapping, disk, interrupted, web, held, resumed >>

\* line 324 left out: the counter keeps its value after a batch save
AfterSaveNoReset ==
    /\ pc' = IF ret = "batch" THEN "while" ELSE ret
    /\ UNCHANGED batch_counter
    /\ ret' = "none"

\* where the process goes on after save_checkpoint; line 324 after a batch save
AfterSave ==
    /\ pc' = IF ret = "batch" THEN "while" ELSE ret
    /\ batch_counter' = IF ret = "batch" THEN 0 ELSE batch_counter
    /\ ret' = "none"

\* line 183: open(CHECKPOINT_FILE, "w") truncates the file; if it raises, the
\* error is logged and the file is as it was
SaveOpen ==
    /\ UNCHANGED outside_crawler
    /\ UNCHANGED fetched
    /\ pc = "save_open"
    /\ \/ /\ disk' = PartialFile
          /\ pc' = "save_dump"
          /\ UNCHANGED << ret, batch_counter >>
       \/ /\ AfterSave
          /\ UNCHANGED disk
    /\ UNCHANGED << run, base, state, visited, relevant_urls, url, page, robots_mapping,
                    interrupted, web, held, resumed >>

\* line 184: json.dump(state, f) writes the snapshot; if it raises on the
\* way, the error is logged and the file stays truncated
SaveDump ==
    /\ UNCHANGED outside_crawler
    /\ UNCHANGED fetched
    /\ pc = "save_dump"
    /\ \/ disk' = FullFile(state)
       \/ UNCHANGED disk
    /\ AfterSave
    /\ UNCHANGED << run, base, state, visited, relevant_urls, url, page, robots_mapping,
                    interrupted, web, held, resumed >>

\* The places of the try block (lines 237-331)
InTry == { "for", "while", "check", "fetch", "score", "links", "upd317",
           "upd319", "batch", "finish", "save_open", "save_dump" }

\* lines 333-335: KeyboardInterrupt in the try block: the state dict is saved
Interrupt ==
    /\ UNCHANGED outside_crawler
    /\ UNCHANGED fetched
    /\ pc \in InTry
    /\ ~interrupted
    /\ interrupted' = TRUE
    /\ held' = [s \in Seeds |-> Held(s)]
    /\ pc' = "save_open"
    /\ ret' = "step3"
    /\ UNCHANGED << run, base, state, visited, relevant_urls, batch_counter, url,
                    page, robots_mapping, disk, web, resumed >>

\* The process is gone, and its memory with it
Exit ==
    /\ pc' = "exit"
    /\ fetched' = <<>>
    /\ base' = 0
    /\ state' = FreshState
    /\ visited' = {}
    /\ relevant_urls' = {}
    /\ batch_counter' = 0
    /\ url' = NoUrl
    /\ page' = NoPage
    /\ ret' = "none"

\* A second KeyboardInterrupt, in the handler's save_checkpoint, is not
\* caught: the process ends there
InterruptHandler ==
    /\ UNCHANGED outside_crawler
    /\ pc \in {"save_open", "save_dump"}
    /\ interrupted
    /\ Exit
    /\ UNCHANGED << run, robots_mapping, disk, interrupted, web, held, resumed >>

\* lines 341-348: the relevant URLs are written out and the process ends
Step3 ==
    /\ UNCHANGED outside_crawler
    /\ pc = "step3"
    /\ Exit
    /\ UNCHANGED << run, robots_mapping, disk, interrupted, web, held, resumed >>

\* The crawler is started again, on the disk the last process left
Restart ==
    /\ UNCHANGED outside_crawler
    /\ UNCHANGED fetched
    /\ pc = "exit"
    /\ run < MaxRuns
    /\ run' = run + 1
    /\ resumed' = interrupted
    /\ interrupted' = FALSE
    /\ pc' = "start"
    /\ UNCHANGED << base, state, visited, relevant_urls, batch_counter, url, page,
                    robots_mapping, disk, ret, web, held >>

\* One process of the crawler: no second start
CrawlOnceNext ==
    \/ Start \/ SeedStart \/ SeedsDone \/ While \/ Check \/ Fetch \/ Score
    \/ Links \/ Upd317 \/ Upd319 \/ Batch \/ Finish \/ SaveOpen \/ SaveDump
    \/ Interrupt \/ InterruptHandler \/ Step3

\* The steps the crawler takes by itself: every step but a KeyboardInterrupt
\* and a start by hand
CrawlStep ==
    \/ Start \/ SeedStart \/ SeedsDone \/ While \/ Check \/ Fetch \/ Score
    \/ Links \/ Upd317 \/ Upd319 \/ Batch \/ Finish \/ SaveOpen \/ SaveDump
    \/ Step3

CrawlNext ==
    \/ Start \/ SeedStart \/ SeedsDone \/ While \/ Check \/ Fetch \/ Score
    \/ Links \/ Upd317 \/ Upd319 \/ Batch \/ Finish \/ SaveOpen \/ SaveDump
    \/ Interrupt \/ InterruptHandler \/ Step3 \/ Restart

(***************************************************************************)
(* is_allowed on its own: a path and two lists are drawn, and the function  *)
(* is applied to them.                                                     *)
(***************************************************************************)
\* Entries of a robots list: the empty entry, "/", "/a", "a"
PathEntries == { <<>>, <<"/">>, <<"/", "a">>, <<"a">> }

PathChars == { "/", "a" }

AllowedIdle ==
    allowed_call = [path |-> <<>>, disallowed |-> <<>>, allowed |-> <<>>,
                    pc |-> "idle", result |-> FALSE]

AllowedInit ==
    allowed_call \in
        [path : SeqsUpTo(PathChars, MaxPathLen), disallowed : SeqsUpTo(PathEntries, MaxRules),
         allowed : SeqsUpTo(PathEntries, MaxRules), pc : {"call"}, result : {FALSE}]

\* the call is_allowed(url, disallowed, allowed), url's path being a_path
IsAllowedCall ==
    /\ a_pc = "call"
    /\ allowed_call' =
          [allowed_call EXCEPT !.pc = "returned",
                               !.result = path_allowed(a_path, a_disallowed, a_allowed)]
    /\ UNCHANGED outside_allowed

(***************************************************************************)
(* The query assistant: F1rstAidApp.get_answer (src/f1rstaid.py).          *)
(***************************************************************************)
\* str.lower, for the letters of the texts of the model
LowerChar(c) ==
    CASE c = "A" -> "a" [] c = "B" -> "b" [] c = "C" -> "c" [] c = "D" -> "d"
      [] c = "E" -> "e" [] c = "F" -> "f" [] c = "G" -> "g" [] c = "H" -> "h"
      [] c = "I" -> "i" [] c = "J" -> "j" [] c = "K" -> "k" [] c = "L" -> "l"
      [] c = "M" -> "m" [] c = "N" -> "n" [] c = "O" -> "o" [] c = "P" -> "p"
      [] c = "Q" -> "q" [] c = "R" -> "r" [] c = "S" -> "s" [] c = "T" -> "t"
      [] c = "U" -> "u" [] c = "V" -> "v" [] c = "W" -> "w" [] c = "X" -> "x"
      [] c = "Y" -> "y" [] c = "Z" -> "z" [] OTHER -> c

Lower(s) == [i \in 1..Len(s) |-> LowerChar(s[i])]

Whitespace == { " ", "\t", "\n" }

\* str.strip: leading and trailing whitespace removed
RECURSIVE LStrip(_)
LStrip(s) ==
    IF s # <<>> /\ Head(s) \in Whitespace THEN LStrip(Tail(s)) ELSE s

RECURSIVE RStrip(_)
RStrip(s) ==
    IF s # <<>> /\ s[Len(s)] \in Whitespace THEN RStrip(SubSeq(s, 1, Len(s) - 1)) ELSE s

Strip(s) == RStrip(LStrip(s))

\* Where sub first occurs in s (the index before its first character), or
\* -1 if it does not occur: str.find
Find(s, sub) ==
    IF Contains(s, sub)
    THEN CHOOSE i \in 0..(Len(s) - Len(sub)) :
            /\ SubSeq(s, i + 1, i + Len(sub)) = sub
            /\ \A j \in 0..(i - 1) : SubSeq(s, j + 1, j + Len(sub)) # sub
    ELSE -1

\* s up to the first occurrence of sub (all of s if there is none):
\* s.split(sub)[0]
Before(s, sub) ==
    IF Find(s, sub) = -1 THEN s ELSE SubSeq(s, 1, Find(s, sub))

\* s after the first occurrence of sub
After(s, sub) == SubSeq(s, Find(s, sub) + Len(sub) + 1, Len(s))

\* The questions get_answer is asked, each with its characters
Questions ==
    { "",
      "   ",
      " \n\t",
      "help",
      "  HELP  ",
      "How to use F1rstAid?",
      "What is OPT?",
      "What's the weather like today?",
      "how to ask you for help",
      "Can you formulate it?",
      "Is OPT helpful?" }

QuestionText(q) ==
    CASE q = "" -> <<>>
      [] q = "   " -> <<" ", " ", " ">>
      [] q = " \n\t" -> <<" ", "\n", "\t">>
      [] q = "help" -> <<"h", "e", "l", "p">>
      [] q = "  HELP  " -> <<" ", " ", "H", "E", "L", "P", " ", " ">>
      [] q = "How to use F1rstAid?" -> <<"H", "o", "w", " ", "t", "o", " ", "u", "s", "e", " ",
        "F", "1", "r", "s", "t", "A", "i", "d", "?">>
      [] q = "What is OPT?" -> <<"W", "h", "a", "t", " ", "i", "s", " ", "O", "P", "T", "?">>
      [] q = "What's the weather like today?" -> <<"W", "h", "a", "t", "'", "s", " ", "t", "h",
        "e", " ", "w", "e", "a", "t", "h", "e", "r", " ", "l", "i", "k", "e", " ", "t", "o", "d",
        "a", "y", "?">>
      [] q = "how to ask you for help" -> <<"h", "o", "w", " ", "t", "o", " ", "a", "s", "k", " ",
        "y", "o", "u", " ", "f", "o", "r", " ", "h", "e", "l", "p">>
      [] q = "Can you formulate it?" -> <<"C", "a", "n", " ", "y", "o", "u", " ", "f", "o", "r",
        "m", "u", "l", "a", "t", "e", " ", "i", "t", "?">>
      [] q = "Is OPT helpful?" -> <<"I", "s", " ", "O", "P", "T", " ", "h", "e", "l", "p", "f",
        "u", "l", "?">>

\* "triggers" of the topic "help"
HelpTriggers ==
    << <<"w", "h", "a", "t", " ", "c", "a", "n", " ", "y", "o", "u", " ", "d", "o">>,
       <<"h", "o", "w", " ", "t", "o", " ", "u", "s", "e">>,
       <<"h", "e", "l", "p">>,
       <<"e", "x", "p", "e", "r", "t", "i", "s", "e">>,
       <<"w", "h", "a", "t", " ", "d", "o", " ", "i", " ", "a", "s", "k", " ", "y", "o", "u">>,
       <<"w", "h", "a", "t", "'", "s", " ", "y", "o", "u", "r", " ", "n", "a", "m", "e">> >>

\* "triggers" of the topic "question_guidance"
GuidanceTriggers ==
    << <<"a", "s", "k", " ", "a", " ", "q", "u", "e", "s", "t", "i", "o", "n">>,
       <<"f", "o", "r", "m", "u", "l", "a", "t", "e">>,
       <<"e", "f", "f", "e", "c", "t", "i", "v", "e", " ", "q", "u", "e", "s", "t", "i", "o", "n", "s">>,
       <<"h", "o", "w", " ", "t", "o", " ", "a", "s", "k", " ", "y", "o", "u">> >>

\* Texts the relevance LLM may answer with
Responses == { "RespYes", "RespNo", "RespUpper", "RespGarbage" }

ResponseText(r) ==
    \* Relevance: yes\nReason: About OPT.\nGuidance: None needed.
    CASE r = "RespYes" -> <<"R", "e", "l", "e", "v", "a", "n", "c", "e", ":", " ", "y", "e", "s",
        "\n", "R", "e", "a", "s", "o", "n", ":", " ", "A", "b", "o", "u", "t", " ", "O", "P", "T",
        ".", "\n", "G", "u", "i", "d", "a", "n", "c", "e", ":", " ", "N", "o", "n", "e", " ", "n",
        "e", "e", "d", "e", "d", ".">>
    \* Relevance: no\nReason: Off topic.\nGuidance: Ask about CPT.
      [] r = "RespNo" -> <<"R", "e", "l", "e", "v", "a", "n", "c", "e", ":", " ", "n", "o", "\n",
        "R", "e", "a", "s", "o", "n", ":", " ", "O", "f", "f", " ", "t", "o", "p", "i", "c", ".",
        "\n", "G", "u", "i", "d", "a", "n", "c", "e", ":", " ", "A", "s", "k", " ", "a", "b", "o",
        "u", "t", " ", "C", "P", "T", ".">>
    \* RELEVANCE: YES
      [] r = "RespUpper" -> <<"R", "E", "L", "E", "V", "A", "N", "C", "E", ":", " ", "Y", "E",
        "S">>
    \* I cannot say.
      [] r = "RespGarbage" -> <<"I", " ", "c", "a", "n", "n", "o", "t", " ", "s", "a", "y", ".">>

\* "relevance: yes"
TxtRelevanceYes == <<"r", "e", "l", "e", "v", "a", "n", "c", "e", ":", " ", "y", "e", "s">>

\* "Reason:"
TxtReason == <<"R", "e", "a", "s", "o", "n", ":">>

\* "Guidance:"
TxtGuidance == <<"G", "u", "i", "d", "a", "n", "c", "e", ":">>

\* "Unable to parse response."
TxtUnableToParse == <<"U", "n", "a", "b", "l", "e", " ", "t", "o", " ", "p", "a", "r", "s", "e",
        " ", "r", "e", "s", "p", "o", "n", "s", "e", ".">>

\* "Help question detected"
TxtHelpDetected == <<"H", "e", "l", "p", " ", "q", "u", "e", "s", "t", "i", "o", "n", " ", "d",
        "e", "t", "e", "c", "t", "e", "d">>

\* "Error analyzing question. Please try again."
TxtErrorAnalyzing == <<"E", "r", "r", "o", "r", " ", "a", "n", "a", "l", "y", "z", "i", "n", "g",
        " ", "q", "u", "e", "s", "t", "i", "o", "n", ".", " ", "P", "l", "e", "a", "s", "e", " ",
        "t", "r", "y", " ", "a", "g", "a", "i", "n", ".">>

\* "Off topic. Ask about CPT."
TxtOffTopicAskCpt == <<"O", "f", "f", " ", "t", "o", "p", "i", "c", ".", " ", "A", "s", "k", " ",
        "a", "b", "o", "u", "t", " ", "C", "P", "T", ".">>

\* The canned responses, the fixed messages and the retrieval chain's answers
HelpResponse == "Hello! I'm F1rstAid ... My Expertise ..."
GuidanceResponse == "How to Ask Effective Questions ..."
EmptyMessage == "Please enter a question about F-1 visas, OPT, or CPT."
ErrorMessage == "Error processing request. Please try again."
RedirectMessage == "Relevance Check {explanation} Ask About ..."
ChainAnswer == "the answer of the retrieval chain"

\* AppConfig.GENERIC_HELP_QUESTIONS, in the order of the dict
GENERIC_HELP_QUESTIONS ==
    << [key |-> "help", response |-> HelpResponse, triggers |-> HelpTriggers],
       [key |-> "question_guidance", response |-> GuidanceResponse,
        triggers |-> GuidanceTriggers] >>

\* any(trigger in clean_q for trigger in entry["triggers"])
AnyTrigger(entry, clean_q) ==
    \E i \in 1..Len(entry.triggers) : Contains(clean_q, entry.triggers[i])

\* The last topic of the table one of whose triggers is in clean_q, 0 if none
LastTopic(clean_q, k) ==
    IF \E j \in k..Len(GENERIC_HELP_QUESTIONS) : AnyTrigger(GENERIC_HELP_QUESTIONS[j], clean_q)
    THEN CHOOSE j \in k..Len(GENERIC_HELP_QUESTIONS) :
            /\ AnyTrigger(GENERIC_HELP_QUESTIONS[j], clean_q)
            /\ \A i \in (j + 1)..Len(GENERIC_HELP_QUESTIONS) :
                  ~AnyTrigger(GENERIC_HELP_QUESTIONS[i], clean_q)
    ELSE 0

\* The first topic of the table one of whose triggers is in clean_q, 0 if none
RECURSIVE FirstTopic(_, _)
FirstTopic(clean_q, k) ==
    IF k > Len(GENERIC_HELP_QUESTIONS) THEN 0
    ELSE IF AnyTrigger(GENERIC_HELP_QUESTIONS[k], clean_q) THEN k
    ELSE FirstTopic(clean_q, k + 1)

\* A result dict: the text, what is interpolated into it, and the sources
Result(text, expl, sources) ==
    [result |-> text, explanation |-> expl, source_documents |-> sources]

\* The exception has left get_answer
Propagated == [result |-> "raised", explanation |-> <<>>, source_documents |-> <<>>]

NoAnswer == [result |-> "none", explanation |-> <<>>, source_documents |-> <<>>]

\* lines 255-260 left out
OnExceptionRaise == Propagated

\* lines 255-260: except Exception: the generic result
OnException == Result(ErrorMessage, <<>>, <<>>)

\* _parse_response_section: the text after the header, up to the header's
\* next occurrence and to the end of the line, stripped
_parse_response_section(resp, header) ==
    IF ~Contains(resp, header) THEN TxtUnableToParse
    ELSE Strip(Before(Before(After(resp, header), header), <<"\n">>))

\* lines 196-200: relevance and explanation from the LLM's text
ParseRelevance(resp) ==
    [ relevant    |-> Contains(Lower(resp), TxtRelevanceYes),
      explanation |-> _parse_response_section(resp, TxtReason) \o <<" ">>
                         \o _parse_response_section(resp, TxtGuidance) ]

\* the redirect returned whatever the relevance check said
OffTopicNever(rel) == FALSE

\* line 234: if not relevant
OffTopic(rel) == ~rel

\* the canned match left out
CannedTopicNone(clean_q) == 0

\* lines 226-229: the topic whose response is returned
CannedTopic(clean_q) == FirstTopic(clean_q, 1)

\* strip() left out: only the empty string counts as empty
IsEmptyNoStrip(q) == q = <<>>

\* line 218: if not question.strip()
IsEmpty(q) == Strip(q) = <<>>

AnswerIdle ==
    answer_call = [pc |-> "idle", qa_chain |-> "None", question |-> "", relevant |-> FALSE,
                   explanation |-> <<>>, response |-> "none", answer |-> NoAnswer,
                   stages |-> <<>>, raised |-> "none"]

\* initialize(): the chain is set up, or an exception leaves it None
Initialize ==
    /\ q_pc \in {"idle", "done"}
    /\ qa_chain = "None"
    /\ \E ok \in BOOLEAN :
          answer_call' = [answer_call EXCEPT !.qa_chain = IF ok THEN "ready" ELSE "None"]
    /\ UNCHANGED outside_answer

\* get_answer(question) is called
Ask ==
    /\ q_pc \in {"idle", "done"}
    /\ \E q \in Questions :
          answer_call' = [pc |-> "empty", qa_chain |-> qa_chain, question |-> q,
                          relevant |-> FALSE, explanation |-> <<>>, response |-> "none",
                          answer |-> NoAnswer, stages |-> <<>>, raised |-> "none"]
    /\ UNCHANGED outside_answer

\* lines 218-222: an empty question is answered at once
EmptyCheck ==
    /\ q_pc = "empty"
    /\ answer_call' =
          IF IsEmpty(QuestionText(question))
          THEN [answer_call EXCEPT !.stages = Append(stages, "empty"),
                                   !.answer = Result(EmptyMessage, <<>>, <<>>),
                                   !.pc = "done"]
          ELSE [answer_call EXCEPT !.stages = Append(stages, "empty"), !.pc = "canned"]
    /\ UNCHANGED outside_answer

\* lines 225-229: the canned response of the first topic a trigger of which
\* is in the question
CannedMatch ==
    /\ q_pc = "canned"
    /\ LET clean_q == Lower(Strip(QuestionText(question)))
           k == CannedTopic(clean_q)
       IN  answer_call' =
               IF k # 0
               THEN [answer_call EXCEPT
                        !.stages = Append(stages, "canned"),
                        !.answer = Result(GENERIC_HELP_QUESTIONS[k].response, <<>>, <<>>),
                        !.pc = "done"]
               ELSE [answer_call EXCEPT !.stages = Append(stages, "canned"),
                                        !.pc = "relevance"]
    /\ UNCHANGED outside_answer

\* lines 172-177: _is_relevant_question looks for a help question first
RelevanceCheck ==
    /\ q_pc = "relevance"
    /\ LET clean_q == Lower(Strip(QuestionText(question)))
       IN  answer_call' =
               IF FirstTopic(clean_q, 1) # 0
               THEN [answer_call EXCEPT !.stages = Append(stages, "relevance"),
                                        !.relevant = TRUE,
                                        !.explanation = TxtHelpDetected,
                                        !.pc = "gate"]
               ELSE [answer_call EXCEPT !.stages = Append(stages, "relevance"),
                                        !.pc = "llm"]
    /\ UNCHANGED outside_answer

\* lines 190-204: the LLM is asked; its text is parsed, or its exception is
\* caught and the question counts as not relevant
LlmCall ==
    /\ q_pc = "llm"
    /\ \/ answer_call' =
             [answer_call EXCEPT !.stages = Append(stages, "llm"),
                                 !.raised = "llm",
                                 !.relevant = FALSE,
                                 !.explanation = TxtErrorAnalyzing,
                                 !.pc = "gate"]
       \/ \E r \in Responses :
             answer_call' =
                 [answer_call EXCEPT
                     !.stages = Append(stages, "llm"),
                     !.response = r,
                     !.relevant = ParseRelevance(ResponseText(r)).relevant,
                     !.explanation = ParseRelevance(ResponseText(r)).explanation,
                     !.pc = "gate"]
    /\ UNCHANGED outside_answer

\* lines 234-246: a question that is not relevant gets the redirect
Gate ==
    /\ q_pc = "gate"
    /\ answer_call' =
          IF OffTopic(relevant)
          THEN [answer_call EXCEPT !.answer = Result(RedirectMessage, explanation, <<>>),
                                   !.pc = "done"]
          ELSE [answer_call EXCEPT !.pc = "retrieval"]
    /\ UNCHANGED outside_answer

\* lines 249-260: the retrieval chain answers; without a chain (None), or if
\* the chain raises, the exception is caught
Retrieval ==
    /\ q_pc = "retrieval"
    /\ \/ /\ qa_chain = "None"
          /\ answer_call' = [answer_call EXCEPT !.stages = Append(stages, "retrieval"),
                                                !.raised = "chain",
                                                !.answer = OnException,
                                                !.pc = "done"]
       \/ /\ qa_chain = "ready"
          /\ answer_call' = [answer_call EXCEPT !.stages = Append(stages, "retrieval"),
                                                !.raised = "chain",
                                                !.answer = OnException,
                                                !.pc = "done"]
       \/ /\ qa_chain = "ready"
          /\ \E docs \in { <<>>, <<"doc1">>, <<"doc1", "doc2">> } :
                answer_call' = [answer_call EXCEPT
                                   !.stages = Append(stages, "retrieval"),
                                   !.answer = Result(ChainAnswer, <<>>, docs),
                                   !.pc = "done"]
    /\ UNCHANGED outside_answer

AnswerNext ==
    \/ Initialize \/ Ask \/ EmptyCheck \/ CannedMatch \/ RelevanceCheck
    \/ LlmCall \/ Gate \/ Retrieval

(***************************************************************************)
(* The relevance score of a page: is_relevant (src/crawler/crawler.py).    *)
(***************************************************************************)
\* Longest content is_relevant is tried on, in words.
MaxWords == 5

\* positive_keywords, in the order of the dict
positive_keywords ==
    << [weight |-> 5, keyword |-> <<"c", "p", "t">>],
       [weight |-> 5, keyword |-> <<"o", "p", "t">>],
       [weight |-> 4, keyword |-> <<"c", "u", "r", "r", "i", "c", "u", "l", "a", "r", " ", "p",
            "r", "a", "c", "t", "i", "c", "a", "l", " ", "t", "r", "a", "i", "n", "i", "n",
            "g">>],
       [weight |-> 4, keyword |-> <<"o", "p", "t", "i", "o", "n", "a", "l", " ", "p", "r", "a",
            "c", "t", "i", "c", "a", "l", " ", "t", "r", "a", "i", "n", "i", "n", "g">>],
       [weight |-> 3, keyword |-> <<"w", "o", "r", "k", " ", "a", "u", "t", "h", "o", "r", "i",
            "z", "a", "t", "i", "o", "n">>],
       [weight |-> 3, keyword |-> <<"e", "m", "p", "l", "o", "y", "m", "e", "n", "t", " ", "a",
            "u", "t", "h", "o", "r", "i", "z", "a", "t", "i", "o", "n">>],
       [weight |-> 2, keyword |-> <<"i", "n", "t", "e", "r", "n", "s", "h", "i", "p">>],
       [weight |-> 3, keyword |-> <<"p", "r", "a", "c", "t", "i", "c", "a", "l", " ", "t", "r",
            "a", "i", "n", "i", "n", "g">>] >>

\* negative_keywords, in the order of the dict
negative_keywords ==
    << [weight |-> 2, keyword |-> <<"i", "n", "t", "e", "r", "n", "a", "t", "i", "o", "n", "a",
            "l", " ", "s", "t", "u", "d", "e", "n", "t">>],
       [weight |-> 2, keyword |-> <<"i", "m", "m", "i", "g", "r", "a", "t", "i", "o", "n">>],
       [weight |-> 2, keyword |-> <<"g", "l", "o", "b", "a", "l", " ", "a", "f", "f", "a", "i",
            "r", "s">>],
       [weight |-> 2, keyword |-> <<"s", "t", "u", "d", "y", " ", "a", "b", "r", "o", "a",
            "d">>],
       [weight |-> 2, keyword |-> <<"u", "n", "i", "v", "e", "r", "s", "i", "t", "y", " ", "h",
            "o", "m", "e", "p", "a", "g", "e">>],
       [weight |-> 2, keyword |-> <<"c", "o", "n", "t", "a", "c", "t", " ", "u", "s">>] >>

\* The words of the page contents is_relevant is tried on
Words == { "CPT", "Internships", "Immigration", "Curricular Practical Training" }

WordText(w) ==
    CASE w = "CPT" -> <<"C", "P", "T">>
      [] w = "Internships" -> <<"I", "n", "t", "e", "r", "n", "s", "h", "i", "p", "s">>
      [] w = "Immigration" -> <<"I", "m", "m", "i", "g", "r", "a", "t", "i", "o", "n">>
      [] w = "Curricular Practical Training" -> <<"C", "u", "r", "r", "i", "c", "u", "l", "a",
        "r", " ", "P", "r", "a", "c", "t", "i", "c", "a", "l", " ", "T", "r", "a", "i", "n",
        "i", "n", "g">>

\* The text of a content: its words with a blank between them
RECURSIVE ContentText(_)
ContentText(ws) ==
    IF ws = <<>> THEN <<>>
    ELSE IF Len(ws) = 1 THEN WordText(ws[1])
    ELSE WordText(ws[1]) \o <<" ">> \o ContentText(Tail(ws))

\* str.count from position i on: the occurrences of kw in s found by
\* scanning from the left and going on after each occurrence found
RECURSIVE CountFrom(_, _, _)
CountFrom(s, kw, i) ==
    LET found == { j \in i..(Len(s) - Len(kw) + 1) : SubSeq(s, j, j + Len(kw) - 1) = kw }
    IN  IF found = {} THEN 0
        ELSE LET first == CHOOSE j \in found : \A k \in found : j <= k
             IN  1 + CountFrom(s, kw, first + Len(kw))

\* text.count(keyword)
Count(s, kw) == CountFrom(s, kw, 1)

\* the sum of weight * occurrences over the first n entries of a table
RECURSIVE WeightedSum(_, _, _)
WeightedSum(table, s, n) ==
    IF n = 0 THEN 0
    ELSE WeightedSum(table, s, n - 1) + table[n].weight * Count(s, table[n].keyword)

\* lines 164-175: the score of a content
RelevanceScore(c) ==
    LET lowered == Lower(c)
    IN  WeightedSum(positive_keywords, lowered, Len(positive_keywords))
          - WeightedSum(negative_keywords, lowered, Len(negative_keywords))

\* the threshold of line 178
RelevanceThreshold == 20

\* the threshold is itself not enough
is_relevant_above(c) == RelevanceScore(c) > RelevanceThreshold

\* line 178: return score >= 20
is_relevant(c) == RelevanceScore(c) >= RelevanceThreshold

RelevantIdle ==
    relevance_call = [pc |-> "idle", content |-> <<>>, score |-> 0, result |-> FALSE]

\* is_relevant is about to be called on some content
RelevantInit ==
    relevance_call \in
        [pc : {"call"}, content : SeqsUpTo(Words, MaxWords), score : {0}, result : {FALSE}]

\* is_relevant(content)
IsRelevantCall ==
    /\ r_pc = "call"
    /\ relevance_call' =
          [relevance_call EXCEPT !.pc = "returned",
                                 !.score = RelevanceScore(ContentText(content)),
                                 !.result = is_relevant(ContentText(content))]
    /\ UNCHANGED outside_relevant

(***************************************************************************)
(* The content processor: validate_content and preprocess_text             *)
(* (src/ingest.py, ContentProcessor).                                      *)
(***************************************************************************)
\* The page contents of the documents of the model, by name
Contents ==
    { "Empty", "Blank", "Hi", "Fixture1", "Fixture2", "Fixture3",
      "Len49", "Len50", "Padded", "Digits", "Long",
      "Cookie", "Privacy", "AdBracket", "AdPlain", "OldTerm" }

\* The characters of each content:
\*   Empty     ''
\*   Blank     '  \n '
\*   Hi        'Hi'
\*   Fixture1  'F-1 students must maintain full-time enrollment.'
\*   Fixture2  'OPT allows students to work for 12 months.'
\*   Fixture3  'Reddit: My OPT was approved in 2 months.'
\*   Len49     'F-1 students must keep a full course of study now'
\*   Len50     'F-1 students must keep a full course of study now.'
\*   Padded    '   F-1 students must keep a full course of study now     \n'
\*   Digits    '2024-01-15 12:30 +1 (617) 253-3795 #42 100% 3.14159 2025-12-31'
\*   Long      'F-1 students must maintain full-time enrollment during each term.'
\*   Cookie    'This site uses Cookies to improve your visit to the OPT pages.'
\*   Privacy   'Read our Privacy Policy before you apply for OPT or CPT online.'
\*   AdBracket '[Advertisement] Apply for OPT with the help of our partner firm.'
\*   AdPlain   'Advertisement: apply for OPT with the help of our partner firm.'
\*   OldTerm   'An F student may apply for OPT after one full academic year.'
ContentChars(c) ==
    CASE c = "Empty" -> <<>>
      [] c = "Blank" -> <<" ", " ", "\n", " ">>
      [] c = "Hi" -> <<"H", "i">>
      [] c = "Fixture1" -> <<"F", "-", "1", " ", "s", "t", "u", "d", "e", "n", "t", "s", " ",
        "m", "u", "s", "t", " ", "m", "a", "i", "n", "t", "a", "i", "n", " ", "f", "u", "l",
        "l", "-", "t", "i", "m", "e", " ", "e", "n", "r", "o", "l", "l", "m", "e", "n", "t",
        ".">>
      [] c = "Fixture2" -> <<"O", "P", "T", " ", "a", "l", "l", "o", "w", "s", " ", "s", "t",
        "u", "d", "e", "n", "t", "s", " ", "t", "o", " ", "w", "o", "r", "k", " ", "f", "o",
        "r", " ", "1", "2", " ", "m", "o", "n", "t", "h", "s", ".">>
      [] c = "Fixture3" -> <<"R", "e", "d", "d", "i", "t", ":", " ", "M", "y", " ", "O", "P",
        "T", " ", "w", "a", "s", " ", "a", "p", "p", "r", "o", "v", "e", "d", " ", "i", "n",
        " ", "2", " ", "m", "o", "n", "t", "h", "s", ".">>
      [] c = "Len49" -> <<"F", "-", "1", " ", "s", "t", "u", "d", "e", "n", "t", "s", " ", "m",
        "u", "s", "t", " ", "k", "e", "e", "p", " ", "a", " ", "f", "u", "l", "l", " ", "c",
        "o", "u", "r", "s", "e", " ", "o", "f", " ", "s", "t", "u", "d", "y", " ", "n", "o",
        "w">>
      [] c = "Len50" -> <<"F", "-", "1", " ", "s", "t", "u", "d", "e", "n", "t", "s", " ", "m",
        "u", "s", "t", " ", "k", "e", "e", "p", " ", "a", " ", "f", "u", "l", "l", " ", "c",
        "o", "u", "r", "s", "e", " ", "o", "f", " ", "s", "t", "u", "d", "y", " ", "n", "o",
        "w", ".">>
      [] c = "Padded" -> <<" ", " ", " ", "F", "-", "1", " ", "s", "t", "u", "d", "e", "n",
        "t", "s", " ", "m", "u", "s", "t", " ", "k", "e", "e", "p", " ", "a", " ", "f", "u",
        "l", "l", " ", "c", "o", "u", "r", "s", "e", " ", "o", "f", " ", "s", "t", "u", "d",
        "y", " ", "n", "o", "w", " ", " ", " ", " ", " ", "\n">>
      [] c = "Digits" -> <<"2", "0", "2", "4", "-", "0", "1", "-", "1", "5", " ", "1", "2",
        ":", "3", "0", " ", "+", "1", " ", "(", "6", "1", "7", ")", " ", "2", "5", "3", "-",
        "3", "7", "9", "5", " ", "#", "4", "2", " ", "1", "0", "0", "%", " ", "3", ".", "1",
        "4", "1", "5", "9", " ", "2", "0", "2", "5", "-", "1", "2", "-", "3", "1">>
      [] c = "Long" -> <<"F", "-", "1", " ", "s", "t", "u", "d", "e", "n", "t", "s", " ", "m",
        "u", "s", "t", " ", "m", "a", "i", "n", "t", "a", "i", "n", " ", "f", "u", "l", "l",
        "-", "t", "i", "m", "e", " ", "e", "n", "r", "o", "l", "l", "m", "e", "n", "t", " ",
        "d", "u", "r", "i", "n", "g", " ", "e", "a", "c", "h", " ", "t", "e", "r", "m", ".">>
      [] c = "Cookie" -> <<"T", "h", "i", "s", " ", "s", "i", "t", "e", " ", "u", "s", "e",
        "s", " ", "C", "o", "o", "k", "i", "e", "s", " ", "t", "o", " ", "i", "m", "p", "r",
        "o", "v", "e", " ", "y", "o", "u", "r", " ", "v", "i", "s", "i", "t", " ", "t", "o",
        " ", "t", "h", "e", " ", "O", "P", "T", " ", "p", "a", "g", "e", "s", ".">>
      [] c = "Privacy" -> <<"R", "e", "a", "d", " ", "o", "u", "r", " ", "P", "r", "i", "v",
        "a", "c", "y", " ", "P", "o", "l", "i", "c", "y", " ", "b", "e", "f", "o", "r", "e",
        " ", "y", "o", "u", " ", "a", "p", "p", "l", "y", " ", "f", "o", "r", " ", "O", "P",
        "T", " ", "o", "r", " ", "C", "P", "T", " ", "o", "n", "l", "i", "n", "e", ".">>
      [] c = "AdBracket" -> <<"[", "A", "d", "v", "e", "r", "t", "i", "s", "e", "m", "e", "n",
        "t", "]", " ", "A", "p", "p", "l", "y", " ", "f", "o", "r", " ", "O", "P", "T", " ",
        "w", "i", "t", "h", " ", "t", "h", "e", " ", "h", "e", "l", "p", " ", "o", "f", " ",
        "o", "u", "r", " ", "p", "a", "r", "t", "n", "e", "r", " ", "f", "i", "r", "m", ".">>
      [] c = "AdPlain" -> <<"A", "d", "v", "e", "r", "t", "i", "s", "e", "m", "e", "n", "t",
        ":", " ", "a", "p", "p", "l", "y", " ", "f", "o", "r", " ", "O", "P", "T", " ", "w",
        "i", "t", "h", " ", "t", "h", "e", " ", "h", "e", "l", "p", " ", "o", "f", " ", "o",
        "u", "r", " ", "p", "a", "r", "t", "n", "e", "r", " ", "f", "i", "r", "m", ".">>
      [] c = "OldTerm" -> <<"A", "n", " ", "F", " ", "s", "t", "u", "d", "e", "n", "t", " ",
        "m", "a", "y", " ", "a", "p", "p", "l", "y", " ", "f", "o", "r", " ", "O", "P", "T",
        " ", "a", "f", "t", "e", "r", " ", "o", "n", "e", " ", "f", "u", "l", "l", " ", "a",
        "c", "a", "d", "e", "m", "i", "c", " ", "y", "e", "a", "r", ".">>

\* metadata["type"]; "unknown" is what metadata.get gives without a type
Types == { "pdf", "web", "reddit", "unknown" }

\* str.isalpha, for the characters of the model
IsAlpha(c) ==
    LowerChar(c) \in { "a", "b", "c", "d", "e", "f", "g", "h", "i", "j", "k", "l", "m",
                       "n", "o", "p", "q", "r", "s", "t", "u", "v", "w", "x", "y", "z" }

\* any(c.isalpha() for c in content)
AnyAlpha(s) == \E i \in 1..Len(s) : IsAlpha(s[i])

\* the minimum length of line 77
MinContentLength == 50

\* line 82: the terms looked for in a web document
BoilerplateTerms ==
    << <<"[", "a", "d", "v", "e", "r", "t", "i", "s", "e", "m", "e", "n", "t", "]">>,
       <<"c", "o", "o", "k", "i", "e">>,
       <<"p", "r", "i", "v", "a", "c", "y", " ", "p", "o", "l", "i", "c", "y">> >>

\* any(term in content.lower() for term in [...])
AnyTerm(s) == \E i \in 1..Len(BoilerplateTerms) : Contains(Lower(s), BoilerplateTerms[i])

\* the length check left out
validate_content_any_length(d) ==
    LET stripped == Strip(ContentChars(d.page_content))
    IN  IF stripped = <<>> \/ ~AnyAlpha(stripped) THEN FALSE
        ELSE IF d.type = "web" /\ AnyTerm(stripped) THEN FALSE
        ELSE TRUE

\* the terms looked for in documents of every type
validate_content_every_type(d) ==
    LET stripped == Strip(ContentChars(d.page_content))
    IN  IF stripped = <<>> \/ Len(stripped) < MinContentLength \/ ~AnyAlpha(stripped)
        THEN FALSE
        ELSE IF AnyTerm(stripped) THEN FALSE
        ELSE TRUE

\* lines 72-86: validate_content(doc)
validate_content(d) ==
    LET stripped == Strip(ContentChars(d.page_content))
    IN  IF stripped = <<>> \/ Len(stripped) < MinContentLength \/ ~AnyAlpha(stripped)
        THEN FALSE
        ELSE IF d.type = "web" /\ AnyTerm(stripped) THEN FALSE
        ELSE TRUE

\* validate_content is about to be called on some document
ContentInit ==
    content_call \in
        [pc : {"call"}, doc : [page_content : Contents, type : Types], result : {FALSE}]

\* validate_content(doc)
ValidateContentCall ==
    /\ d_pc = "call"
    /\ content_call' = [content_call EXCEPT !.pc = "returned", !.result = validate_content(doc)]
    /\ UNCHANGED outside_content

\* Longest text preprocess_text is tried on, in fragments.
MaxFragments == 3

\* The fragments the texts preprocess_text is tried on are put together from
Fragments ==
    { "F student", "F Students", "F visa", "OPT ", "OPT", "F", " student", "F-1 student", "s" }

FragmentText(f) ==
    CASE f = "F student" -> <<"F", " ", "s", "t", "u", "d", "e", "n", "t">>
      [] f = "F Students" -> <<"F", " ", "S", "t", "u", "d", "e", "n", "t", "s">>
      [] f = "F visa" -> <<"F", " ", "v", "i", "s", "a">>
      [] f = "OPT " -> <<"O", "P", "T", " ">>
      [] f = "OPT" -> <<"O", "P", "T">>
      [] f = "F" -> <<"F">>
      [] f = " student" -> <<" ", "s", "t", "u", "d", "e", "n", "t">>
      [] f = "F-1 student" -> <<"F", "-", "1", " ", "s", "t", "u", "d", "e", "n", "t">>
      [] f = "s" -> <<"s">>

\* The text of an input: its fragments one after another
RECURSIVE InputText(_)
InputText(fs) ==
    IF fs = <<>> THEN <<>> ELSE FragmentText(fs[1]) \o InputText(Tail(fs))

\* "OPT" rewritten with no blank after it
replacements_without_blank ==
    << [old |-> <<"F", " ", "s", "t", "u", "d", "e", "n", "t">>,
        new |-> <<"F", "-", "1", " ", "s", "t", "u", "d", "e", "n", "t">>],
       [old |-> <<"F", " ", "S", "t", "u", "d", "e", "n", "t", "s">>,
        new |-> <<"F", "-", "1", " ", "S", "t", "u", "d", "e", "n", "t", "s">>],
       [old |-> <<"F", " ", "v", "i", "s", "a">>,
        new |-> <<"F", "-", "1", " ", "v", "i", "s", "a">>],
       [old |-> <<"O", "P", "T">>,
        new |-> <<"O", "p", "t", "i", "o", "n", "a", "l", " ", "P", "r", "a", "c", "t", "i", "c", "a", "l",
                " ", "T", "r", "a", "i", "n", "i", "n", "g", " ", "(", "O", "P", "T", ")">>] >>

\* lines 62-67: replacements, in the order of the dict
replacements ==
    << [old |-> <<"F", " ", "s", "t", "u", "d", "e", "n", "t">>,
        new |-> <<"F", "-", "1", " ", "s", "t", "u", "d", "e", "n", "t">>],
       [old |-> <<"F", " ", "S", "t", "u", "d", "e", "n", "t", "s">>,
        new |-> <<"F", "-", "1", " ", "S", "t", "u", "d", "e", "n", "t", "s">>],
       [old |-> <<"F", " ", "v", "i", "s", "a">>,
        new |-> <<"F", "-", "1", " ", "v", "i", "s", "a">>],
       [old |-> <<"O", "P", "T", " ">>,
        new |-> <<"O", "p", "t", "i", "o", "n", "a", "l", " ", "P", "r", "a", "c", "t", "i", "c", "a", "l",
                " ", "T", "r", "a", "i", "n", "i", "n", "g", " ", "(", "O", "P", "T", ")",
                " ">>] >>

\* str.replace from position i on: every occurrence of old found by scanning
\* from the left, going on after each, gives way to new
RECURSIVE ReplaceFrom(_, _, _, _)
ReplaceFrom(s, old, new, i) ==
    LET found == { j \in i..(Len(s) - Len(old) + 1) : SubSeq(s, j, j + Len(old) - 1) = old }
    IN  IF found = {} THEN SubSeq(s, i, Len(s))
        ELSE LET first == CHOOSE j \in found : \A k \in found : j <= k
             IN  SubSeq(s, i, first - 1) \o new \o ReplaceFrom(s, old, new, first + Len(old))

\* text.replace(old, new)
Replace(s, old, new) == ReplaceFrom(s, old, new, 1)

\* lines 68-69: the first n replacements applied in turn
RECURSIVE ApplyReplacements(_, _)
ApplyReplacements(s, n) ==
    IF n = 0 THEN s
    ELSE Replace(ApplyReplacements(s, n - 1), replacements[n].old, replacements[n].new)

\* lines 60-70: preprocess_text(text)
preprocess_text(s) == ApplyReplacements(s, Len(replacements))

\* preprocess_text is about to be called on some text
PreprocessInit ==
    \E fs \in SeqsUpTo(Fragments, MaxFragments) :
        preprocess_call = [pc |-> "call", input |-> fs, text |-> InputText(fs), once |-> <<>>]

\* preprocess_text(text), on the input and then on what it returned
PreprocessCall ==
    /\ p_pc \in {"call", "once"}
    /\ preprocess_call' =
          [preprocess_call EXCEPT
              !.pc = IF p_pc = "call" THEN "once" ELSE "twice",
              !.text = preprocess_text(p_text),
              !.once = IF p_pc = "call" THEN preprocess_text(p_text) ELSE p_once]
    /\ UNCHANGED outside_preprocess

\* Nothing of the content pipeline, the index validation or the ingestion runs
ContentIdle ==
    content_call = [pc |-> "idle", doc |-> [page_content |-> "Empty", type |-> "unknown"],
                    result |-> FALSE]

PreprocessIdle ==
    preprocess_call = [pc |-> "idle", input |-> <<>>, text |-> <<>>, once |-> <<>>]

ValidationIdle ==
    validation_run =
        [pc |-> "idle", query |-> 0, results |-> <<>>, is_valid |-> FALSE,
         message |-> "none", returned |-> "none", exit |-> "none", executed |-> 0,
         reported |-> 0, failed |-> 0, old_terms |-> FALSE]

IngestRunIdle ==
    ingest_run =
        [pc |-> "idle", documents |-> <<>>, valid_docs |-> <<>>, chunks |-> <<>>,
         db |-> "none", query |-> 0, hits |-> 0, returned |-> "none",
         exit |-> "none", raised |-> "none", before |-> "none"]

IngestIdle ==
    /\ IngestRunIdle
    /\ faiss_index = "none"

(***************************************************************************)
(* The index validator (src/validate_index.py).                            *)
(***************************************************************************)
\* the number of queries in test_queries, lines 70-91
NumQueries == 15

\* k of similarity_search(query, k=2)
SearchK == 2

\* The documents the index returns: a page content and its metadata
ResultDocs ==
    [ page_content : { "Long", "Len50", "Hi", "Digits", "OldTerm" },
      metadata : { "a.pdf", "b.pdf" } ]

\* What similarity_search may return for a query
ResultSets == SeqsUpTo(ResultDocs, SearchK)

\* the minimum length of line 29
MinResultLength == 50

\* r != doc on two Documents: they differ in a field
DocumentsDiffer(r, d) == r # d

\* line 33: any(r.page_content == doc.page_content for r in results if r != doc)
AnyDuplicate(rs, d) ==
    \E j \in 1..Len(rs) : DocumentsDiffer(rs[j], d) /\ rs[j].page_content = d.page_content

\* lines 25-40: the loop over the results, from the i-th on
RECURSIVE ValidateFrom(_, _)
ValidateFrom(rs, i) ==
    IF i > Len(rs)
    THEN [valid |-> TRUE, message |-> "Results validated successfully"]
    ELSE LET stripped == Strip(ContentChars(rs[i].page_content))
         IN  IF Len(stripped) < MinResultLength
             THEN [valid |-> FALSE, message |-> "Result too short"]
             ELSE IF AnyDuplicate(rs, rs[i])
             THEN [valid |-> FALSE, message |-> "Duplicate results found"]
             ELSE IF ~AnyAlpha(stripped)
             THEN [valid |-> FALSE, message |-> "No meaningful text found in result"]
             ELSE ValidateFrom(rs, i + 1)

\* lines 19-40: validate_results(results, query)
validate_results(rs) ==
    IF rs = <<>>
    THEN [valid |-> FALSE, message |-> "No results returned"]
    ELSE ValidateFrom(rs, 1)

\* lines 45-49: terminology_checks, the terms on the left
terminology_checks ==
    << <<"F", " ", "s", "t", "u", "d", "e", "n", "t">>,
       <<"F", " ", "S", "t", "u", "d", "e", "n", "t", "s">>,
       <<"F", " ", "v", "i", "s", "a">> >>

\* lines 43-58: validate_content_terminology(content), its first component
validate_content_terminology(c) ==
    ~\E i \in 1..Len(terminology_checks) : Contains(c, terminology_checks[i])

\* every query is taken for valid
FailureReturnsNever(valid) == FALSE

\* line 102: if not is_valid
FailureReturns(valid) == ~valid

\* lines 63-64: check_environment
CheckEnvironment ==
    /\ v_pc = "idle"
    /\ \E ok \in BOOLEAN :
          validation_run' =
              IF ok
              THEN [validation_run EXCEPT !.pc = "load"]
              ELSE [validation_run EXCEPT !.pc = "returned", !.returned = "False"]
    /\ UNCHANGED outside_validation

\* lines 67-68 and 118-120: the index is loaded, or load_local raises
LoadIndex ==
    /\ v_pc = "load"
    /\ \/ validation_run' = [validation_run EXCEPT !.pc = "search", !.query = 1]
       \/ validation_run' = [validation_run EXCEPT !.pc = "returned", !.returned = "False"]
    /\ UNCHANGED outside_validation

\* lines 97-99 and 118-120: the query is run against the index, or
\* similarity_search raises
Search ==
    /\ v_pc = "search"
    /\ \/ \E rs \in ResultSets :
             validation_run' =
                 [validation_run EXCEPT
                     !.results = rs,
                     !.executed = v_executed + 1,
                     !.old_terms =
                         (v_old_terms \/ \E i \in 1..Len(rs) :
                             ~validate_content_terminology(ContentChars(rs[i].page_content))),
                     !.pc = "validate"]
       \/ validation_run' = [validation_run EXCEPT !.pc = "returned", !.returned = "False"]
    /\ UNCHANGED outside_validation

\* lines 100-104: the results are validated; a failure ends the run
Validate ==
    /\ v_pc = "validate"
    /\ validation_run' =
          [validation_run EXCEPT
              !.is_valid = validate_results(results).valid,
              !.message = validate_results(results).message,
              !.failed = IF validate_results(results).valid THEN v_failed ELSE v_failed + 1,
              !.pc = IF FailureReturns(validate_results(results).valid)
                     THEN "returned" ELSE "report",
              !.returned = IF FailureReturns(validate_results(results).valid)
                           THEN "False" ELSE v_return]
    /\ UNCHANGED outside_validation

\* lines 106-116: the results are printed; after the last query the run
\* returns True
Report ==
    /\ v_pc = "report"
    /\ validation_run' =
          IF v_query = NumQueries
          THEN [validation_run EXCEPT !.reported = v_reported + 1,
                                      !.pc = "returned", !.returned = "True"]
          ELSE [validation_run EXCEPT !.reported = v_reported + 1,
                                      !.pc = "search", !.query = v_query + 1]
    /\ UNCHANGED outside_validation

\* lines 129-137: the script ends, with exit(1) unless the run succeeded
ValidationExit ==
    /\ v_pc = "returned"
    /\ validation_run' =
          [validation_run EXCEPT !.pc = "exited",
                                 !.exit = IF v_return = "True" THEN "0" ELSE "1"]
    /\ UNCHANGED outside_validation

ValidationNext ==
    \/ CheckEnvironment \/ LoadIndex \/ Search \/ Validate \/ Report
    \/ ValidationExit

(***************************************************************************)
(* The ingestion run: main and create_vector_store (src/ingest.py).        *)
(***************************************************************************)
\* Longest list of documents load_sources returns.
MaxDocuments == 2

\* the number of queries in test_queries, line 253
NumSelfTests == 2

\* The documents load_sources may return
SourceDocs ==
    [ page_content : { "Long", "Hi", "Cookie" }, type : { "pdf", "web" } ]

\* line 272: the documents validate_content accepts, in their order
RECURSIVE ValidDocs(_)
ValidDocs(ds) ==
    IF ds = <<>> THEN <<>>
    ELSE IF validate_content(Head(ds)) THEN << Head(ds) >> \o ValidDocs(Tail(ds))
    ELSE ValidDocs(Tail(ds))

\* lines 278-280: a chunk of a document, with its text preprocessed (the
\* documents of the model are shorter than a chunk, and give one chunk each)
Chunk(d) ==
    [ page_content |-> preprocess_text(ContentChars(d.page_content)), type |-> d.type ]

Chunks(ds) == [ i \in 1..Len(ds) |-> Chunk(ds[i]) ]

\* every self-test query is taken to have passed
SelfTestFailsNever(rs) == FALSE

\* line 256: if not results
SelfTestFails(rs) == rs = <<>>

\* main has caught an exception raised at the place named: lines 287-289
IngestFailed(place) ==
    [ingest_run EXCEPT !.raised = place, !.returned = "False", !.pc = "returned"]

\* The script is started, with or without an index on disk from before
IngestInit ==
    /\ faiss_index \in { "none", "old" }
    /\ ingest_run =
          [pc |-> "start", documents |-> <<>>, valid_docs |-> <<>>, chunks |-> <<>>,
           db |-> "none", query |-> 0, hits |-> 0, returned |-> "none",
           exit |-> "none", raised |-> "none", before |-> faiss_index]

\* line 269: load_sources returns the documents, or raises
LoadSources ==
    /\ g_pc = "start"
    /\ \/ \E ds \in SeqsUpTo(SourceDocs, MaxDocuments) :
             ingest_run' = [ingest_run EXCEPT !.documents = ds, !.pc = "validate"]
       \/ ingest_run' = IngestFailed("load_sources")
    /\ UNCHANGED faiss_index
    /\ UNCHANGED outside_ingest

\* lines 272-274: the valid documents; with none of them, ValueError
ValidateDocuments ==
    /\ g_pc = "validate"
    /\ ingest_run' =
          IF ValidDocs(documents) = <<>>
          THEN [IngestFailed("no valid documents") EXCEPT !.valid_docs = <<>>]
          ELSE [ingest_run EXCEPT !.valid_docs = ValidDocs(documents), !.pc = "chunk"]
    /\ UNCHANGED faiss_index
    /\ UNCHANGED outside_ingest

\* lines 277-280: the chunks of the valid documents
MakeChunks ==
    /\ g_pc = "chunk"
    /\ ingest_run' = [ingest_run EXCEPT !.chunks = Chunks(valid_docs), !.pc = "build"]
    /\ UNCHANGED faiss_index
    /\ UNCHANGED outside_ingest

\* lines 249-250: the index is built in memory, or the embedding raises
BuildIndex ==
    /\ g_pc = "build"
    /\ \/ ingest_run' = [ingest_run EXCEPT !.db = "built", !.query = 1, !.pc = "selftest"]
       \/ ingest_run' = IngestFailed("from_documents")
    /\ UNCHANGED faiss_index
    /\ UNCHANGED outside_ingest

\* lines 254-257: a self-test query; with no result for it, ValueError
SelfTest ==
    /\ g_pc = "selftest"
    /\ \E rs \in SeqsUpTo(SetOf(chunks), SearchK) :
          ingest_run' =
              IF SelfTestFails(rs)
              THEN [IngestFailed("self-test") EXCEPT
                       !.hits = IF Len(rs) > 0 THEN g_hits + 1 ELSE g_hits]
              ELSE [ingest_run EXCEPT
                       !.hits = IF Len(rs) > 0 THEN g_hits + 1 ELSE g_hits,
                       !.pc = IF g_query = NumSelfTests THEN "save" ELSE "selftest",
                       !.query = IF g_query = NumSelfTests THEN g_query ELSE g_query + 1]
    /\ UNCHANGED faiss_index
    /\ UNCHANGED outside_ingest

\* lines 259-260 and 283-285: the index is persisted and main returns True;
\* or save_local raises, with the files on disk written in part or not at all
SaveLocal ==
    /\ g_pc = "save"
    /\ \/ /\ faiss_index' = "new"
          /\ ingest_run' = [ingest_run EXCEPT !.returned = "True", !.pc = "returned"]
       \/ /\ faiss_index' \in { faiss_index, "partial" }
          /\ ingest_run' = IngestFailed("save_local")
    /\ UNCHANGED outside_ingest

\* lines 300-302: the script ends, with exit(1) unless main returned True
IngestExit ==
    /\ g_pc = "returned"
    /\ ingest_run' =
          [ingest_run EXCEPT !.pc = "exited",
                             !.exit = IF g_return = "True" THEN "0" ELSE "1"]
    /\ UNCHANGED faiss_index
    /\ UNCHANGED outside_ingest

IngestNext ==
    \/ LoadSources \/ ValidateDocuments \/ MakeChunks \/ BuildIndex \/ SelfTest
    \/ SaveLocal \/ IngestExit

(***************************************************************************)
(* The knowledge update: append_to_vector_store (src/update_knowledge.py). *)
(***************************************************************************)
AppendIdle ==
    append_run = [pc |-> "idle", docs |-> <<>>, vector_store |-> "none",
                  failed |-> "none", returned |-> "none", before |-> "none"]

\* append_to_vector_store is called with a list of chunks, with or without
\* an index on disk
AppendInit ==
    /\ faiss_index \in { "none", "old" }
    /\ \E ds \in SeqsUpTo(SourceDocs, MaxDocuments) :
          append_run = [pc |-> "embeddings", docs |-> ds, vector_store |-> "none",
                        failed |-> "none", returned |-> "none", before |-> faiss_index]

\* the exception leaves append_to_vector_store
AppendFailedReraise(place) ==
    [append_run EXCEPT !.failed = place, !.pc = "raised"]

\* lines 38-40: except Exception: the error is logged and False returned
AppendFailed(place) ==
    [append_run EXCEPT !.failed = place, !.returned = "False", !.pc = "returned"]

\* line 25: embeddings = OpenAIEmbeddings(), which raises without an API key
Embeddings ==
    /\ append_run.pc = "embeddings"
    /\ \/ append_run' = [append_run EXCEPT !.pc = "load_local"]
       \/ append_run' = AppendFailed("OpenAIEmbeddings")
    /\ UNCHANGED faiss_index
    /\ UNCHANGED outside_append

\* lines 26-30: FAISS.load_local; it raises with no complete index on disk,
\* and may raise with one
AppendLoad ==
    /\ append_run.pc = "load_local"
    /\ \/ /\ faiss_index = "old"
          /\ append_run' = [append_run EXCEPT !.vector_store = "loaded",
                                              !.pc = "add_documents"]
       \/ append_run' = AppendFailed("load_local")
    /\ UNCHANGED faiss_index
    /\ UNCHANGED outside_append

\* line 33: vector_store.add_documents(docs), or the embedding raises
AppendAdd ==
    /\ append_run.pc = "add_documents"
    /\ \/ append_run' = [append_run EXCEPT !.vector_store = "added", !.pc = "save_local"]
       \/ append_run' = AppendFailed("add_documents")
    /\ UNCHANGED faiss_index
    /\ UNCHANGED outside_append

\* lines 36-37: the index is persisted and True returned; or save_local
\* raises, with the files on disk written in part or not at all
AppendSave ==
    /\ append_run.pc = "save_local"
    /\ \/ /\ faiss_index' = "appended"
          /\ append_run' = [append_run EXCEPT !.returned = "True", !.pc = "returned"]
       \/ /\ faiss_index' \in { faiss_index, "partial" }
          /\ append_run' = AppendFailed("save_local")
    /\ UNCHANGED outside_append

AppendNext ==
    \/ Embeddings \/ AppendLoad \/ AppendAdd \/ AppendSave

(***************************************************************************)
(* load_sources and its gathered tasks (src/ingest.py).                    *)
(***************************************************************************)
\* Most PDF files in docs/, and most URLs in WEBSITE_SOURCES, of the model
MaxPdfs == 2
MaxWebsites == 2

\* What becomes of a process_pdf task: the loader raises, or gives the
\* file's pages
PdfOutcomes ==
    { [ok |-> FALSE, pages |-> 0] } \cup { [ok |-> TRUE, pages |-> n] : n \in 0..2 }

\* What becomes of a process_website task: the request raises, or is
\* answered with a status
WebsiteOutcomes == { "raised", "404", "200" }

\* A result slot of asyncio.gather before its task is done
Pending == [done |-> FALSE, value |-> <<>>]

\* lines 88-101: process_pdf for the file at position i: its pages as
\* documents, or [] when the loader raised
process_pdf(i, out) ==
    IF out.ok
    THEN [ k \in 1..out.pages |-> [kind |-> "doc", type |-> "pdf", source |-> i, page |-> k] ]
    ELSE <<>>

\* lines 103-127: process_website for the URL at position j: a document
\* for a 200 response, else None
process_website(j, out) ==
    IF out = "200"
    THEN [kind |-> "doc", type |-> "web", source |-> j, page |-> 0]
    ELSE None

\* the documents scrape_reddit returns
reddit_docs(n) == [ k \in 1..n |-> [kind |-> "doc", type |-> "reddit", source |-> k, page |-> 0] ]

\* the results in the order in which the tasks were done
gather_as_completed(slots, order) == [ k \in 1..Len(order) |-> slots[order[k]].value ]

\* asyncio.gather(*tasks): the results, each at the position of its task
gather(slots, order) == [ i \in 1..Len(slots) |-> slots[i].value ]

\* for docs in pdf_results: documents.extend(docs)
RECURSIVE Extend(_, _)
Extend(docs, lists) ==
    IF lists = <<>> THEN docs ELSE Extend(docs \o Head(lists), Tail(lists))

\* for doc in website_results: if doc: documents.append(doc)
RECURSIVE AppendEach(_, _)
AppendEach(docs, ds) ==
    IF ds = <<>> THEN docs
    ELSE AppendEach(IF Head(ds) # None THEN Append(docs, Head(ds)) ELSE docs, Tail(ds))

\* self.metrics.total_pdfs += len(docs), for each docs of pdf_results
RECURSIVE TotalLen(_)
TotalLen(lists) ==
    IF lists = <<>> THEN 0 ELSE Len(Head(lists)) + TotalLen(Tail(lists))

LoadIdle ==
    load_run = [pc |-> "idle", pdf_files |-> <<>>, websites |-> <<>>, reddit |-> 0,
                pdf_slots |-> <<>>, pdf_order |-> <<>>, website_slots |-> <<>>,
                website_order |-> <<>>, documents |-> <<>>, total_pdfs |-> 0,
                total_websites |-> 0]

\* load_sources is called: the files, the URLs and the forum, with what
\* becomes of each
LoadInit ==
    \E fs \in SeqsUpTo(PdfOutcomes, MaxPdfs), ws \in SeqsUpTo(WebsiteOutcomes, MaxWebsites),
       n \in 0..1 :
        load_run = [pc |-> "start", pdf_files |-> fs, websites |-> ws, reddit |-> n,
                    pdf_slots |-> <<>>, pdf_order |-> <<>>, website_slots |-> <<>>,
                    website_order |-> <<>>, documents |-> <<>>, total_pdfs |-> 0,
                    total_websites |-> 0]

\* lines 202-210: a task per PDF file; os.listdir raises without docs/, and
\* the exception leaves load_sources (lines 243-245)
PdfTasks ==
    /\ load_run.pc = "start"
    /\ \/ load_run' = [load_run EXCEPT
                          !.pdf_slots = [ i \in 1..Len(load_run.pdf_files) |-> Pending ],
                          !.pc = "pdf_gather"]
       \/ load_run' = [load_run EXCEPT !.pc = "raised"]
    /\ UNCHANGED outside_load

\* a process_pdf task is done, and its result is in its slot
PdfTaskDone ==
    /\ load_run.pc = "pdf_gather"
    /\ \E i \in 1..Len(load_run.pdf_slots) :
          /\ ~load_run.pdf_slots[i].done
          /\ load_run' =
                [load_run EXCEPT
                    !.pdf_slots[i] =
                        [done |-> TRUE, value |-> process_pdf(i, load_run.pdf_files[i])],
                    !.pdf_order = Append(@, i)]
    /\ UNCHANGED outside_load

\* lines 213-216: gather returns once every task is done; the results are
\* added to documents and counted
PdfCollect ==
    /\ load_run.pc = "pdf_gather"
    /\ \A i \in 1..Len(load_run.pdf_slots) : load_run.pdf_slots[i].done
    /\ LET pdf_results == gather(load_run.pdf_slots, load_run.pdf_order)
       IN  load_run' =
               [load_run EXCEPT
                   !.documents = Extend(@, pdf_results),
                   !.total_pdfs = @ + TotalLen(pdf_results),
                   !.website_slots = [ j \in 1..Len(load_run.websites) |-> Pending ],
                   !.pc = "website_gather"]
    /\ UNCHANGED outside_load

\* a process_website task is done, and its result is in its slot
WebsiteTaskDone ==
    /\ load_run.pc = "website_gather"
    /\ \E j \in 1..Len(load_run.website_slots) :
          /\ ~load_run.website_slots[j].done
          /\ load_run' =
                [load_run EXCEPT
                    !.website_slots[j] =
                        [done |-> TRUE, value |-> process_website(j, load_run.websites[j])],
                    !.website_order = Append(@, j)]
    /\ UNCHANGED outside_load

\* lines 223-228: the documents of the websites are appended and counted
WebsiteCollect ==
    /\ load_run.pc = "website_gather"
    /\ \A j \in 1..Len(load_run.website_slots) : load_run.website_slots[j].done
    /\ LET website_results == gather(load_run.website_slots, load_run.website_order)
       IN  load_run' =
               [load_run EXCEPT
                   !.documents = AppendEach(@, website_results),
                   !.total_websites = @ + Len(AppendEach(<<>>, website_results)),
                   !.pc = "reddit"]
    /\ UNCHANGED outside_load

\* lines 231-241: the forum documents are added and documents is returned
RedditCollect ==
    /\ load_run.pc = "reddit"
    /\ load_run' = [load_run EXCEPT !.documents = @ \o reddit_docs(load_run.reddit),
                                    !.pc = "returned"]
    /\ UNCHANGED outside_load

LoadNext ==
    \/ PdfTasks \/ PdfTaskDone \/ PdfCollect \/ WebsiteTaskDone \/ WebsiteCollect
    \/ RedditCollect

(***************************************************************************)
(* The chat page: process_query and the cancel button (src/f1rstaid.py).   *)
(***************************************************************************)
\* Most requests made in one session
MaxRequests == 3

QueryIdle ==
    query_run = [pc |-> "idle", question |-> "", processing |-> FALSE,
                 cancel_query |-> FALSE, cancel_at_start |-> FALSE, checks |-> 0,
                 called |-> FALSE, shown |-> "none", question_history |-> 0,
                 requests |-> 0]

\* lines 558-563: the session state as main initialises it
QueryInit ==
    query_run = [pc |-> "page", question |-> "", processing |-> FALSE,
                 cancel_query |-> FALSE, cancel_at_start |-> FALSE, checks |-> 0,
                 called |-> FALSE, shown |-> "none", question_history |-> 0,
                 requests |-> 0]

\* lines 505-506: finally: st.session_state.processing = False
Finally(req, what) ==
    [req EXCEPT !.processing = FALSE, !.shown = what, !.pc = "page"]

\* lines 607-608: process_query(question) is called; the flag the session
\* holds at that moment is noted
Submit ==
    /\ query_run.pc = "page"
    /\ query_run.requests < MaxRequests
    /\ \E q \in { "", "What is OPT?" } :
          query_run' = [query_run EXCEPT !.pc = "begin", !.question = q,
                                         !.cancel_at_start = query_run.cancel_query,
                                         !.checks = 0, !.called = FALSE,
                                         !.shown = "none", !.requests = @ + 1]
    /\ UNCHANGED outside_query

\* lines 478-479: processing = True, cancel_query = False
BeginProcessing(req) ==
    [req EXCEPT !.processing = TRUE, !.cancel_query = FALSE, !.pc = "check"]

\* lines 474-479: an empty question is turned away; else the request begins
Begin ==
    /\ query_run.pc = "begin"
    /\ query_run' = IF query_run.question = ""
                    THEN Finally(query_run, "Please enter a question.")
                    ELSE BeginProcessing(query_run)
    /\ UNCHANGED outside_query

\* lines 481-485: the check for cancellation
CancelCheck ==
    /\ query_run.pc = "check"
    /\ query_run' = IF query_run.cancel_query
                    THEN Finally([query_run EXCEPT !.checks = @ + 1],
                                 "Query cancelled by user.")
                    ELSE [query_run EXCEPT !.checks = @ + 1, !.pc = "get_answer"]
    /\ UNCHANGED outside_query

\* lines 487-503: app.get_answer(question) and what is shown for its answer;
\* an exception is logged and reported
CallGetAnswer ==
    /\ query_run.pc = "get_answer"
    /\ \/ query_run' = Finally([query_run EXCEPT !.called = TRUE,
                                                 !.question_history = @ + 1],
                               "Answer Generated!")
       \/ query_run' = Finally([query_run EXCEPT !.called = TRUE],
                               "Failed to generate answer. Please try again.")
       \/ query_run' = Finally([query_run EXCEPT !.called = TRUE],
                               "An error occurred while processing your query.")
    /\ UNCHANGED outside_query

\* lines 601-605: the cancel button, shown while processing is set
CancelButton ==
    /\ query_run.processing
    /\ query_run' = [query_run EXCEPT !.cancel_query = TRUE, !.processing = FALSE]
    /\ UNCHANGED outside_query

QueryNext ==
    \/ Submit \/ Begin \/ CancelCheck \/ CallGetAnswer \/ CancelButton

vars == << cvars, avars, qvars, rvars, dvars, pvars, ivars, gvars, uvars, lvars, svars >>

\* Whatever is not the crawler, before it is used
OthersIdle ==
    /\ AllowedIdle
    /\ AnswerIdle
    /\ RelevantIdle
    /\ ContentIdle
    /\ PreprocessIdle
    /\ ValidationIdle
    /\ IngestIdle
    /\ AppendIdle
    /\ LoadIdle
    /\ QueryIdle

Init == CrawlInit /\ OthersIdle

Next == CrawlNext

Spec == Init /\ [][Next]_vars

CrawlIdle ==
    /\ CrawlInit
    /\ robots_mapping = [s \in Seeds |-> [disallowed |-> <<>>, allowed |-> <<>>]]

InitAllowed ==
    /\ AllowedInit
    /\ CrawlIdle
    /\ AnswerIdle
    /\ RelevantIdle
    /\ ContentIdle
    /\ PreprocessIdle
    /\ ValidationIdle
    /\ IngestIdle
    /\ AppendIdle
    /\ LoadIdle
    /\ QueryIdle

\* One process of the crawler that goes on as long as it has a step to take
\* (every call it makes returns or raises: timeout=15, line 274)
SpecFair == Init /\ [][CrawlOnceNext]_vars /\ WF_vars(CrawlStep)

InitTree == CrawlInitOn("tree") /\ OthersIdle

SpecTree == InitTree /\ [][CrawlOnceNext]_vars

InitLinks == CrawlInitOn("links") /\ OthersIdle

SpecLinks == InitLinks /\ [][CrawlOnceNext]_vars

SpecAllowed == InitAllowed /\ [][IsAllowedCall]_vars

InitAnswer == CrawlIdle /\ OthersIdle

SpecAnswer == InitAnswer /\ [][AnswerNext]_vars

InitRelevant ==
    /\ RelevantInit
    /\ CrawlIdle
    /\ AllowedIdle
    /\ AnswerIdle
    /\ ContentIdle
    /\ PreprocessIdle
    /\ ValidationIdle
    /\ IngestIdle
    /\ AppendIdle
    /\ LoadIdle
    /\ QueryIdle

SpecRelevant == InitRelevant /\ [][IsRelevantCall]_vars

InitContent ==
    /\ ContentInit
    /\ CrawlIdle
    /\ AllowedIdle
    /\ AnswerIdle
    /\ RelevantIdle
    /\ PreprocessIdle
    /\ ValidationIdle
    /\ IngestIdle
    /\ AppendIdle
    /\ LoadIdle
    /\ QueryIdle

SpecContent == InitContent /\ [][ValidateContentCall]_vars

InitPreprocess ==
    /\ PreprocessInit
    /\ CrawlIdle
    /\ AllowedIdle
    /\ AnswerIdle
    /\ RelevantIdle
    /\ ContentIdle
    /\ ValidationIdle
    /\ IngestIdle
    /\ AppendIdle
    /\ LoadIdle
    /\ QueryIdle

SpecPreprocess == InitPreprocess /\ [][PreprocessCall]_vars

InitValidation == CrawlIdle /\ OthersIdle

SpecValidation == InitValidation /\ [][ValidationNext]_vars

InitIngest ==
    /\ IngestInit
    /\ CrawlIdle
    /\ AllowedIdle
    /\ AnswerIdle
    /\ RelevantIdle
    /\ ContentIdle
    /\ PreprocessIdle
    /\ ValidationIdle
    /\ AppendIdle
    /\ LoadIdle
    /\ QueryIdle

SpecIngest == InitIngest /\ [][IngestNext]_vars

InitAppend ==
    /\ AppendInit
    /\ CrawlIdle
    /\ AllowedIdle
    /\ AnswerIdle
    /\ RelevantIdle
    /\ ContentIdle
    /\ PreprocessIdle
    /\ ValidationIdle
    /\ IngestRunIdle
    /\ LoadIdle
    /\ QueryIdle

SpecAppend == InitAppend /\ [][AppendNext]_vars

InitLoad ==
    /\ LoadInit
    /\ CrawlIdle
    /\ AllowedIdle
    /\ AnswerIdle
    /\ RelevantIdle
    /\ ContentIdle
    /\ PreprocessIdle
    /\ ValidationIdle
    /\ IngestIdle
    /\ AppendIdle
    /\ QueryIdle

SpecLoad == InitLoad /\ [][LoadNext]_vars

InitQuery ==
    /\ QueryInit
    /\ CrawlIdle
    /\ AllowedIdle
    /\ AnswerIdle
    /\ RelevantIdle
    /\ ContentIdle
    /\ PreprocessIdle
    /\ ValidationIdle
    /\ IngestIdle
    /\ AppendIdle
    /\ LoadIdle

SpecQuery == InitQuery /\ [][QueryNext]_vars

(***************************************************************************)
(* Properties of the crawler.                                              *)
(***************************************************************************)
\* The state dict as it would be with the local sets of the seed being
\* crawled written into it
CurrentState ==
    IF base \in Seeds
    THEN [state EXCEPT !.visited[base] = visited, !.relevant_urls[base] = relevant_urls]
    ELSE state

\* C1: a process that resumes after an interrupted one loads, for every
\* seed, exactly the URLs (visited, frontier and relevant together) the
\* interrupted process held when the KeyboardInterrupt was raised.
C1_NoUrlLostOnResume ==
    (pc = "for" /\ base = 0 /\ run > 1 /\ resumed /\ disk.kind = "full")
        => \A s \in Seeds : StateUrls(state, s) = held[s]

\* C2 (as claimed): in a crawl started from the fresh state, at the head of
\* the crawl loop no URL is both in visited and in the frontier.
C2_VisitedFrontierDisjoint ==
    (run = 1 /\ pc = "while") => visited \cap SetOf(to_visit) = {}

\* C2 (amended): no link is in visited when link extraction appends it to
\* the frontier, and link extraction only appends.
C2_AppendedNotVisited ==
    [][ pc = "links" =>
           /\ Len(to_visit') >= Len(to_visit)
           /\ SubSeq(to_visit', 1, Len(to_visit)) = to_visit
           /\ \A i \in (Len(to_visit) + 1)..Len(to_visit') : to_visit'[i] \notin visited'
      ]_vars

\* A page whose two links to the same new page were both appended
C2_Witness ==
    /\ run = 1 /\ base = 1 /\ pc = "upd317"
    /\ visited = { Seed1 }
    /\ to_visit = << PageA1, PageA1 >>

\* relevant is a subset of visited: in the local sets, in every seed's entry
\* of the state dict, and in the checkpoint on disk
RelevantSubsetVisited ==
    /\ relevant_urls \subseteq visited
    /\ \A s \in Seeds : state.relevant_urls[s] \subseteq state.visited[s]
    /\ disk.kind = "full" =>
          \A s \in Seeds : disk.state.relevant_urls[s] \subseteq disk.state.visited[s]

\* C3: every relevant URL is a visited URL, and a URL joins the relevant set
\* only when it is in visited and its fetch gave a page with status 200.
C3_RelevantSubsetVisited ==
    /\ []RelevantSubsetVisited
    /\ [][ (pc = "score" /\ relevant_urls' # relevant_urls) =>
              /\ page.kind = "ok"
              /\ url \in visited
              /\ relevant_urls' = relevant_urls \cup {url}
         ]_vars

\* A relevant page was found
C3_Witness ==
    /\ pc = "links"
    /\ url \in relevant_urls
    /\ page.relevant

\* C4 (as claimed): whenever the crawl loop has dealt with a popped URL and
\* is back at its head, the checkpoint file holds the full current state.
C4_CheckpointAfterEveryUrl ==
    (pc = "while" /\ url # NoUrl) => disk = FullFile(CurrentState)

\* C4 (amended): the checkpoint that save_checkpoint completes when a seed's
\* frontier has emptied holds the full current state of every seed, the
\* local sets of the seed just crawled included.
C4_CheckpointAtSeedEnd ==
    [][ (pc = "save_dump" /\ ret = "for" /\ disk' # disk) =>
            /\ disk' = FullFile(CurrentState)
            /\ to_visit = <<>>
      ]_vars

\* The first seed's crawl has ended and its final checkpoint is on disk
C4_Witness ==
    /\ pc = "for" /\ base = 1 /\ run = 1
    /\ visited = { Seed1 }
    /\ disk = FullFile(CurrentState)

\* C5: a process never starts on a truncated checkpoint file.
C5_CheckpointNeverPartial ==
    pc = "start" => disk.kind # "partial"

(***************************************************************************)
(* Properties of is_allowed.                                               *)
(***************************************************************************)
\* some non-empty entry of the list is a prefix of the path
SomePrefix(paths, path) ==
    \E i \in 1..Len(paths) : paths[i] # <<>> /\ StartsWith(path, paths[i])

\* C6: is_allowed is true if a non-empty allowed entry is a prefix of the
\* path, whatever disallowed holds; otherwise it is false exactly if a
\* non-empty disallowed entry is a prefix; with both lists empty it is true.
C6_AllowWins ==
    a_pc = "returned" =>
        /\ SomePrefix(a_allowed, a_path) => a_result = TRUE
        /\ ~SomePrefix(a_allowed, a_path) =>
              (a_result = FALSE <=> SomePrefix(a_disallowed, a_path))
        /\ (a_allowed = <<>> /\ a_disallowed = <<>>) => a_result = TRUE

\* An allowed and a disallowed entry both match, and the URL is allowed
C6_Witness ==
    /\ a_pc = "returned"
    /\ a_result = TRUE
    /\ SomePrefix(a_allowed, a_path)
    /\ SomePrefix(a_disallowed, a_path)

(***************************************************************************)
(* Properties of get_answer.                                               *)
(***************************************************************************)
\* The question, trimmed and lower-cased, contains a trigger of topic k
HasTriggerOf(q, k) ==
    \E i \in 1..Len(GENERIC_HELP_QUESTIONS[k].triggers) :
        Contains(Lower(Strip(QuestionText(q))), GENERIC_HELP_QUESTIONS[k].triggers[i])

HasTrigger(q) == \E k \in 1..Len(GENERIC_HELP_QUESTIONS) : HasTriggerOf(q, k)

\* The question has no character that is not whitespace
WhitespaceOnly(q) ==
    \A i \in 1..Len(QuestionText(q)) : QuestionText(q)[i] \in Whitespace

\* C7: a question with a trigger phrase in it gets the canned response of a
\* topic it triggers, with no sources, and neither the relevance LLM nor the
\* retrieval chain is called for it, with or without an initialised chain.
C7_CannedNoLlm ==
    (q_pc # "idle" /\ HasTrigger(question)) =>
        /\ q_pc \in {"empty", "canned", "done"}
        /\ SetOf(stages) \subseteq {"empty", "canned"}
        /\ q_pc = "done" =>
              /\ \E k \in 1..Len(GENERIC_HELP_QUESTIONS) :
                    /\ HasTriggerOf(question, k)
                    /\ answer = Result(GENERIC_HELP_QUESTIONS[k].response, <<>>, <<>>)
              /\ question \in {"help", "  HELP  "} => answer.result = HelpResponse
              /\ question = "Can you formulate it?" => answer.result = GuidanceResponse

\* "  HELP  " was answered by an app whose chain is None
C7_Witness ==
    /\ q_pc = "done"
    /\ question = "  HELP  "
    /\ qa_chain = "None"
    /\ answer = Result(HelpResponse, <<>>, <<>>)

\* C8: an empty or whitespace-only question gets the fixed message with no
\* sources after the empty check alone: no canned match, no LLM, no retrieval.
C8_EmptyQuestion ==
    (q_pc = "done" /\ WhitespaceOnly(question)) =>
        /\ answer = Result(EmptyMessage, <<>>, <<>>)
        /\ stages = << "empty" >>

\* A question of a blank, a newline and a tab was answered
C8_Witness ==
    /\ q_pc = "done"
    /\ question = " \n\t"
    /\ answer.result = EmptyMessage

\* C9 (as claimed): get_answer returns, and whenever an exception was raised
\* while it ran, what it returns is the generic error result.
C9_AnyExceptionGenericError ==
    q_pc = "done" =>
        /\ answer # Propagated
        /\ raised # "none" => answer = Result(ErrorMessage, <<>>, <<>>)

\* C9 (amended): get_answer returns a result whatever is raised; an
\* exception of the retrieval chain (a chain that is None included) gives
\* the generic error result; an exception of the relevance LLM call gives
\* the redirect with "Error analyzing question. Please try again." in it,
\* with no sources and without retrieval.
C9_ExceptionsCaught ==
    q_pc = "done" =>
        /\ answer # Propagated
        /\ answer # NoAnswer
        /\ raised = "chain" => answer = Result(ErrorMessage, <<>>, <<>>)
        /\ raised = "llm" =>
              /\ answer = Result(RedirectMessage, TxtErrorAnalyzing, <<>>)
              /\ "retrieval" \notin SetOf(stages)
        /\ (qa_chain = "None" /\ "retrieval" \in SetOf(stages)) =>
              answer = Result(ErrorMessage, <<>>, <<>>)

\* The chain of an app that was not initialised was invoked
C9_Witness ==
    /\ q_pc = "done"
    /\ qa_chain = "None"
    /\ raised = "chain"
    /\ answer.result = ErrorMessage

\* p is q or the beginning of q
IsPrefix(p, q) == Len(p) <= Len(q) /\ SubSeq(q, 1, Len(p)) = p

\* C10: the stages run in the order empty check, canned match, relevance
\* check (with its LLM call), retrieval; retrieval is reached only by a
\* question with no trigger that the relevance check found on-topic; a
\* question found off-topic gets the redirect with the LLM's reason and
\* guidance in it, no sources, and no retrieval.
C10_StageOrder ==
    /\ IsPrefix(stages, << "empty", "canned", "relevance", "llm", "retrieval" >>)
    /\ "retrieval" \in SetOf(stages) =>
          /\ relevant
          /\ ~HasTrigger(question)
          /\ ~WhitespaceOnly(question)
          /\ response \in {"RespYes", "RespUpper"}
    /\ (q_pc = "done" /\ "llm" \in SetOf(stages) /\ response \notin {"RespYes", "RespUpper"}) =>
          /\ ~relevant
          /\ answer = Result(RedirectMessage, explanation, <<>>)
          /\ "retrieval" \notin SetOf(stages)
    /\ (q_pc = "done" /\ response = "RespNo") => answer.explanation = TxtOffTopicAskCpt
    /\ (q_pc = "done" /\ response = "RespGarbage") =>
          answer.explanation = TxtUnableToParse \o <<" ">> \o TxtUnableToParse

\* The LLM found a question off-topic, and the redirect carries its reason
\* and guidance
C10_Witness ==
    /\ q_pc = "done"
    /\ response = "RespNo"
    /\ answer = Result(RedirectMessage, TxtOffTopicAskCpt, <<>>)

\* C11: a question with triggers of several topics gets the response of the
\* first of them in the order of the table ("help" before
\* "question_guidance"), wherever in the question the triggers stand; a
\* trigger matches as a substring of the trimmed, lower-cased question.
C11_FirstTopicWins ==
    (q_pc = "done" /\ HasTrigger(question)) =>
        /\ \E k \in 1..Len(GENERIC_HELP_QUESTIONS) :
              /\ HasTriggerOf(question, k)
              /\ \A j \in 1..(k - 1) : ~HasTriggerOf(question, j)
              /\ answer.result = GENERIC_HELP_QUESTIONS[k].response
        /\ (HasTriggerOf(question, 1) /\ HasTriggerOf(question, 2)) =>
              answer.result = HelpResponse
        /\ question = "Is OPT helpful?" => answer.result = HelpResponse

\* A question with "how to ask you" (question_guidance) before "help" (help)
\* was answered with the response of "help"
C11_Witness ==
    /\ q_pc = "done"
    /\ question = "how to ask you for help"
    /\ HasTriggerOf(question, 1)
    /\ HasTriggerOf(question, 2)
    /\ answer = Result(HelpResponse, <<>>, <<>>)


(***************************************************************************)
(* Properties of is_relevant.                                              *)
(***************************************************************************)
\* The places of s where kw stands
Occurrences(s, kw) ==
    { i \in 1..(Len(s) - Len(kw) + 1) : SubSeq(s, i, i + Len(kw) - 1) = kw }

\* weight times number of occurrences, summed over the first n keywords
RECURSIVE SumOfOccurrences(_, _, _)
SumOfOccurrences(table, s, n) ==
    IF n = 0 THEN 0
    ELSE SumOfOccurrences(table, s, n - 1)
           + table[n].weight * Cardinality(Occurrences(s, table[n].keyword))

\* The score as the sum over the positive keywords minus the sum over the
\* negative ones, letters of either case counting alike
ScoreOf(ws) ==
    LET low == Lower(ContentText(ws))
    IN  SumOfOccurrences(positive_keywords, low, Len(positive_keywords))
          - SumOfOccurrences(negative_keywords, low, Len(negative_keywords))

\* C12: is_relevant returns true iff the sum over the positive keywords of
\* weight times occurrences (of either case), minus that sum over the
\* negative keywords, is at least 20: 20 is relevant, 19 is not; "CPT" three
\* times and "internship" once is 17 and not relevant, and with a fourth
\* "CPT" 22 and relevant.
C12_RelevantIffScoreAtLeast20 ==
    r_pc = "returned" =>
        /\ LET sum == ScoreOf(content)
           IN  /\ score = sum
               /\ r_result = (sum >= 20)
               /\ sum = 20 => r_result
               /\ sum = 19 => ~r_result
        /\ content = << "CPT", "CPT", "CPT", "Internships" >> => (score = 17 /\ ~r_result)
        /\ content = << "CPT", "CPT", "CPT", "Internships", "CPT" >> => (score = 22 /\ r_result)

\* A content that scores exactly 20 was found relevant
C12_Witness ==
    /\ r_pc = "returned"
    /\ score = 20
    /\ r_result
    /\ ScoreOf(content) = 20

\* A content that scores 19 was found not relevant
C12_Witness19 ==
    /\ r_pc = "returned"
    /\ score = 19
    /\ ~r_result


(***************************************************************************)
(* Properties of the content processor.                                    *)
(***************************************************************************)
\* The content of a document without its leading and trailing whitespace
Stripped(d) == Strip(ContentChars(d.page_content))

\* No character of s is a letter
NoLetter(s) == \A i \in 1..Len(s) : ~IsAlpha(s[i])

\* The document fails one of the three checks made of every document
FailsBasicChecks(d) ==
    \/ Stripped(d) = <<>>
    \/ Len(Stripped(d)) < 50
    \/ NoLetter(Stripped(d))

C13_WitnessAccepted ==
    /\ d_pc = "returned"
    /\ doc = [page_content |-> "Len50", type |-> "pdf"]
    /\ d_result

\* The documents of the fixture mock_documents
mock_documents ==
    { [page_content |-> "Fixture1", type |-> "pdf"],
      [page_content |-> "Fixture2", type |-> "web"],
      [page_content |-> "Fixture3", type |-> "reddit"] }

\* C14 (as claimed): validate_content accepts each document of
\* mock_documents and rejects a web document with empty content.
C14_FixturesAccepted ==
    d_pc = "returned" =>
        /\ doc \in mock_documents => d_result
        /\ doc = [page_content |-> "Empty", type |-> "web"] => ~d_result

\* "advertisement"
TxtAdvertisement == <<"a", "d", "v", "e", "r", "t", "i", "s", "e", "m", "e", "n", "t">>

\* "[advertisement]"
TxtBracketedAdvertisement == <<"[", "a", "d", "v", "e", "r", "t", "i", "s", "e", "m", "e", "n", "t", "]">>

\* "cookie"
TxtCookie == <<"c", "o", "o", "k", "i", "e">>

\* "privacy policy"
TxtPrivacyPolicy == <<"p", "r", "i", "v", "a", "c", "y", " ", "p", "o", "l", "i", "c", "y">>

\* The content holds "advertisement", "cookie" or "privacy policy", in
\* letters of either case
HasMarker(d) ==
    \/ Contains(Lower(Stripped(d)), TxtAdvertisement)
    \/ Contains(Lower(Stripped(d)), TxtCookie)
    \/ Contains(Lower(Stripped(d)), TxtPrivacyPolicy)

\* The content holds "[advertisement]", "cookie" or "privacy policy", in
\* letters of either case
HasBracketedMarker(d) ==
    \/ Contains(Lower(Stripped(d)), TxtBracketedAdvertisement)
    \/ Contains(Lower(Stripped(d)), TxtCookie)
    \/ Contains(Lower(Stripped(d)), TxtPrivacyPolicy)

\* C15 (as claimed): a web document with "advertisement", "cookie" or
\* "privacy policy" in it is rejected; the markers are looked for in no
\* document of another type.
C15_MarkersRejectWeb ==
    d_pc = "returned" =>
        /\ (doc.type = "web" /\ HasMarker(doc)) => ~d_result
        /\ (doc.type # "web" /\ ~FailsBasicChecks(doc)) => d_result

\* C15 (amended): a web document with "[advertisement]" (in its brackets),
\* "cookie" or "privacy policy" in it is rejected; a web document that passes
\* the three basic checks and has none of these is accepted, the word
\* advertisement without brackets included; the markers are looked for in no
\* document of another type.
C15_BracketedMarkersRejectWeb ==
    d_pc = "returned" =>
        /\ (doc.type = "web" /\ HasBracketedMarker(doc)) => ~d_result
        /\ (doc.type = "web" /\ ~FailsBasicChecks(doc) /\ ~HasBracketedMarker(doc)) => d_result
        /\ doc = [page_content |-> "AdPlain", type |-> "web"] => d_result
        /\ (doc.type # "web" /\ ~FailsBasicChecks(doc)) => d_result

\* A web document that begins with "[Advertisement]" was rejected
C15_Witness ==
    /\ d_pc = "returned"
    /\ doc = [page_content |-> "AdBracket", type |-> "web"]
    /\ HasBracketedMarker(doc)
    /\ ~FailsBasicChecks(doc)
    /\ ~d_result


\* "F student"
TxtFStudent == <<"F", " ", "s", "t", "u", "d", "e", "n", "t">>

\* "F-1 student"
TxtF1Student == <<"F", "-", "1", " ", "s", "t", "u", "d", "e", "n", "t">>

\* "OPT "
TxtOptBlank == <<"O", "P", "T", " ">>

\* C16: preprocess_text applied to what it returned gives the same text
\* again, so nothing a replacement wrote is rewritten by a second
\* application; and an input with "F student" in it gives a text with
\* "F-1 student" in it.
C16_Idempotent ==
    /\ p_pc = "twice" => p_text = p_once
    /\ (p_pc # "call" /\ Contains(InputText(p_input), TxtFStudent)) =>
          Contains(p_once, TxtF1Student)

\* A text with "F student" and "OPT " in it was rewritten by the first call
\* and left as it was by the second
C16_Witness ==
    /\ p_pc = "twice"
    /\ Contains(InputText(p_input), TxtFStudent)
    /\ Contains(InputText(p_input), TxtOptBlank)
    /\ p_once # InputText(p_input)
    /\ p_text = p_once


(***************************************************************************)
(* Properties of the index validator.                                      *)
(***************************************************************************)
\* validate_results has returned for the results at hand
Validated == v_pc \in {"report", "returned", "exited"} /\ message # "none"

\* Two results at different positions have the same page content
SameContentTwice(rs) ==
    \E i, j \in 1..Len(rs) : i # j /\ rs[i].page_content = rs[j].page_content

\* C17 (as claimed): validate_results fails every result set with the same
\* page content at two positions, whether the metadata of the two differ or
\* not, an empty result set, a result of under 50 characters once stripped,
\* and a result without a letter.
C17_DuplicatesRejected ==
    Validated =>
        /\ SameContentTwice(results) => ~is_valid
        /\ results = <<>> => ~is_valid
        /\ (\E i \in 1..Len(results) : Len(Stripped(results[i])) < 50) => ~is_valid
        /\ (\E i \in 1..Len(results) : NoLetter(Stripped(results[i]))) => ~is_valid

\* C18 (as claimed): after a query has failed validation the other queries
\* of the battery are still run against the index, and the run fails iff a
\* query failed.
C18_FailureDoesNotStopRun ==
    v_pc \in {"returned", "exited"} =>
        /\ v_failed > 0 => v_executed = NumQueries
        /\ v_failed > 0 => v_return = "False"

\* C18 (amended): the first query to fail validation ends the run with
\* False: it is the last query run against the index, neither its results
\* nor those of a later query are reported, and the run returns True iff
\* each of the queries was run, passed validation and was reported.
C18_FirstFailureEndsRun ==
    /\ v_failed <= 1
    /\ v_failed = 1 =>
          /\ v_pc \in {"returned", "exited"}
          /\ v_return = "False"
          /\ ~is_valid
          /\ v_executed = v_query
          /\ v_reported = v_query - 1
    /\ v_return = "True" <=>
          /\ v_pc \in {"returned", "exited"}
          /\ v_failed = 0
          /\ v_executed = NumQueries
          /\ v_reported = NumQueries
    /\ v_exit = "0" <=> (v_pc = "exited" /\ v_return = "True")
    /\ v_exit = "1" <=> (v_pc = "exited" /\ v_return = "False")

\* The second query failed validation after the first had passed, and the
\* run ended there
C18_Witness ==
    /\ v_pc = "exited"
    /\ v_failed = 1
    /\ v_query = 2
    /\ v_executed = 2
    /\ v_reported = 1
    /\ v_exit = "1"

\* C19 (as claimed): a run in which a returned chunk held "F student",
\* "F Students" or "F visa" does not report success.
C19_OldTerminologyFlagged ==
    v_old_terms => v_return # "True"


(***************************************************************************)
(* Properties of the ingestion run.                                        *)
(***************************************************************************)
\* C20: the index on disk is written only once each self-test query has
\* returned a result; if a self-test query returns none, create_vector_store
\* raises, the index on disk stays what it was, main returns False and the
\* script exits with code 1.
C20_PersistOnlyAfterSelfTest ==
    /\ faiss_index # g_before => (g_hits = NumSelfTests /\ g_pc \in {"returned", "exited"})
    /\ g_pc = "save" => g_hits = NumSelfTests
    /\ g_raised = "self-test" =>
          /\ g_hits < NumSelfTests
          /\ faiss_index = g_before
          /\ g_return = "False"
          /\ g_pc = "exited" => g_exit = "1"
    /\ g_exit = "0" => (g_return = "True" /\ faiss_index = "new")

\* The second self-test query returned nothing: the index from before is
\* still on disk and the script has exited with code 1
C20_Witness ==
    /\ g_pc = "exited"
    /\ g_raised = "self-test"
    /\ g_hits = 1
    /\ g_before = "old"
    /\ faiss_index = "old"
    /\ g_return = "False"
    /\ g_exit = "1"

(***************************************************************************)
(* Properties of the crawl loop.                                           *)
(***************************************************************************)
\* The robots policy of the seed being crawled lets the URL through: a
\* non-empty allowed entry is a prefix of its path, or no non-empty
\* disallowed entry is
RobotsAllow(u) ==
    path_allowed(urlparse(u).path, robots.disallowed, robots.allowed)

\* C25: a URL the seed's robots policy rejects is never fetched and never
\* added to visited, be it the seed itself or a URL of a frontier loaded
\* from the checkpoint, and a link the policy rejects is never appended to
\* the frontier.
C25_DisallowedNeverFetched ==
    /\ [](pc \in { "fetch", "score", "links" } => RobotsAllow(url))
    /\ [][ (base \in Seeds /\ base' = base) =>
              \A u \in visited' \ visited : u = url /\ RobotsAllow(u) ]_vars
    /\ [][ pc = "links" =>
              \A i \in (Len(to_visit) + 1)..Len(to_visit') : RobotsAllow(to_visit'[i]) ]_vars

\* In a process resumed from the checkpoint, the second seed was popped
\* from the frontier, is rejected by its site's policy and was skipped
C25_Witness ==
    /\ run = 2 /\ resumed /\ base = 2 /\ pc = "while"
    /\ url = Seed2
    /\ ~RobotsAllow(Seed2)
    /\ visited = {}
    /\ to_visit = <<>>

\* A fetched page linked to a page the policy rejects, and the link was not
\* appended
C25_WitnessLink ==
    /\ base = 1 /\ pc = "upd317"
    /\ PageA1 \in SetOf(page.links)
    /\ ~RobotsAllow(PageA1)
    /\ PageA1 \notin SetOf(to_visit)

\* C26: in one process's crawl of a seed no URL is fetched twice: a URL is
\* in visited when its fetch starts, whatever the fetch comes to, and a URL
\* that was fetched is never appended to the frontier again.
C26_FetchedOnce ==
    /\ [](\A i, j \in 1..Len(fetched) : i # j => fetched[i] # fetched[j])
    /\ [](SetOf(fetched) \subseteq visited)
    /\ [](pc = "fetch" => (url \in visited /\ url \notin SetOf(fetched)))
    /\ [][ pc = "links" =>
              \A i \in (Len(to_visit) + 1)..Len(to_visit') :
                  to_visit'[i] \notin SetOf(fetched) ]_vars

\* The seed's page linked twice to the same page; the page was fetched
\* once, and its second entry in the frontier was popped and skipped
C26_Witness ==
    /\ base = 1 /\ pc = "while"
    /\ page.links = << PageA1, PageA1 >>
    /\ fetched = << Seed1, PageA1 >>
    /\ url = PageA1
    /\ to_visit = <<>>

DotPositions(h) == { i \in 1..Len(h) : h[i] = "." }

\* The registrable domain of a host name under a one-label suffix such as
\* edu or io: its last two labels
RegistrableDomain(h) ==
    IF Cardinality(DotPositions(h)) < 2 THEN h
    ELSE LET last == CHOOSE i \in DotPositions(h) : \A j \in DotPositions(h) : j <= i
             before == CHOOSE i \in DotPositions(h) \ {last} :
                           \A j \in DotPositions(h) \ {last} : j <= i
         IN  SubSeq(h, before + 1, Len(h))

\* C28 (as claimed): link extraction appends at the tail of the frontier,
\* and every link it appends is an http(s) link to a host of the seed's own
\* registrable domain that is not in visited.
C28_SameSiteLinksOnly ==
    [][ pc = "links" =>
           /\ SubSeq(to_visit', 1, Len(to_visit)) = to_visit
           /\ \A i \in (Len(to_visit) + 1)..Len(to_visit') :
                 /\ urlparse(to_visit'[i]).scheme \in { "http", "https" }
                 /\ RegistrableDomain(urlparse(to_visit'[i]).netloc)
                        = RegistrableDomain(domain)
                 /\ to_visit'[i] \notin visited
      ]_vars

\* The places of the while loop of one seed (lines 261-324)
InLoop == { "while", "check", "fetch", "score", "links", "upd317", "upd319", "batch" }

\* C29: in one process's crawl of a seed the batch counter counts the URLs added to the
\* relevant set since the seed's crawl began or the last batch save, and
\* never exceeds 10; at the end of an iteration that brings it to 10
\* save_checkpoint is called and the counter goes back to 0; save_checkpoint
\* is called once more when the frontier is empty, and on an interrupt; a
\* page found relevant adds its URL and one to the counter only if the URL
\* is not in the relevant set, which in a crawl is every time.
C29_BatchCheckpoints ==
    /\ [](batch_counter \in 0..BatchSize)
    /\ []((pc \in InLoop /\ batch_counter = BatchSize) => pc \in { "links", "upd317", "upd319", "batch" })
    /\ []((pc \in InLoop \cup { "finish" })
            => (Cardinality(relevant_urls) - batch_counter) % BatchSize = 0)
    /\ [](pc = "score" => url \notin relevant_urls)
    /\ [][ (pc = "score" /\ pc' = "links") =>
              IF page.relevant /\ url \notin relevant_urls
              THEN relevant_urls' = relevant_urls \cup { url } /\ batch_counter' = batch_counter + 1
              ELSE relevant_urls' = relevant_urls /\ batch_counter' = batch_counter ]_vars
    /\ [][ (pc = "batch" /\ ~interrupted') =>
              IF batch_counter >= BatchSize
              THEN pc' = "save_open" /\ ret' = "batch"
              ELSE pc' = "while" /\ batch_counter' = batch_counter ]_vars
    /\ [][ (ret = "batch" /\ ret' = "none" /\ pc' # "exit") =>
              (pc' = "while" /\ batch_counter' = 0) ]_vars
    /\ [][ (batch_counter' # batch_counter) =>
              \/ pc = "score" /\ batch_counter' = batch_counter + 1
              \/ batch_counter' = 0 /\ (ret = "batch" \/ pc = "for" \/ pc' = "exit") ]_vars
    /\ [][ (pc = "finish" /\ ~interrupted') => (pc' = "save_open" /\ ret' = "for") ]_vars
    /\ [][ (~interrupted /\ interrupted') => (pc' = "save_open" /\ ret' = "step3") ]_vars
    /\ [][ (pc' = "save_open" /\ pc # "save_open") =>
              \/ pc = "batch" /\ batch_counter >= BatchSize
              \/ pc = "finish"
              \/ ~interrupted /\ interrupted' ]_vars

\* a batch save wrote the checkpoint and the counter is back at 0
C29_Witness ==
    /\ pc = "while"
    /\ batch_counter = 0
    /\ Cardinality(relevant_urls) = BatchSize
    /\ disk.kind = "full"
    /\ Cardinality(disk.state.relevant_urls[base]) = BatchSize

\* The number of links from the seed to the page of URL u of the site "tree"
DepthOf(u) == Depth(TreeNode(u))

\* C30: the frontier is a queue: a URL is taken at its head only and links
\* are appended at its tail only, so the URLs of a seed are fetched in the
\* order in which they were appended; on a site that is a tree, whose
\* pages are appended in the order of their numbers, every page at
\* distance d from the seed is fetched before any page at distance d + 1.
C30_BreadthFirst ==
    /\ [][ (pc = "while" /\ pc' = "check") =>
              (url' = Head(to_visit) /\ to_visit' = Tail(to_visit)) ]_vars
    /\ [][ (base >= 1 /\ base' = base /\ pc' # "exit" /\ to_visit' # to_visit) =>
              \/ pc = "while" /\ to_visit' = Tail(to_visit)
              \/ pc = "links" /\ Len(to_visit') > Len(to_visit)
                               /\ SubSeq(to_visit', 1, Len(to_visit)) = to_visit ]_vars
    /\ [](web = "tree" =>
            \A i, j \in 1..Len(fetched) :
               (i < j /\ fetched[i] \in TreeUrls /\ fetched[j] \in TreeUrls) =>
                  /\ TreeNode(fetched[i]) < TreeNode(fetched[j])
                  /\ DepthOf(fetched[i]) <= DepthOf(fetched[j]))

\* both pages at distance 1 and the four at distance 2 were fetched, then
\* one at distance 3
C30_Witness ==
    /\ web = "tree"
    /\ Len(fetched) = 8
    /\ \A i \in 1..8 : fetched[i] = TreeUrl(i)
    /\ DepthOf(fetched[8]) = 3
    /\ DepthOf(fetched[7]) = 2

(***************************************************************************)
(* Properties of append_to_vector_store.                                   *)
(***************************************************************************)
\* C21: append_to_vector_store never raises; it returns True exactly when
\* load_local, add_documents and save_local have all succeeded and False
\* when a step has failed, and the index on disk is as it was when
\* OpenAIEmbeddings, load_local or add_documents was the step that failed.
C21_ReturnsFalseOnFailure ==
    /\ append_run.pc # "raised"
    /\ append_run.pc = "returned" =>
          /\ append_run.returned \in { "True", "False" }
          /\ append_run.returned = "True" <=>
                (append_run.vector_store = "added" /\ faiss_index = "appended")
          /\ append_run.returned = "False" <=> append_run.failed # "none"
          /\ append_run.failed \in { "OpenAIEmbeddings", "load_local", "add_documents" }
                => faiss_index = append_run.before

\* add_documents has raised on an index that was loaded: False is returned
\* and the index on disk is the one from before
C21_Witness ==
    /\ append_run.pc = "returned"
    /\ append_run.failed = "add_documents"
    /\ append_run.vector_store = "loaded"
    /\ append_run.docs # <<>>
    /\ append_run.returned = "False"
    /\ faiss_index = "old"

\* all three steps have succeeded and True is returned
C21_WitnessAppended ==
    /\ append_run.pc = "returned"
    /\ append_run.returned = "True"
    /\ faiss_index = "appended"

(***************************************************************************)
(* Properties of load_sources.                                             *)
(***************************************************************************)
\* The documents of the PDF files from position i on, in the order of the
\* files
RECURSIVE PdfDocsFrom(_, _)
PdfDocsFrom(fs, i) ==
    IF i > Len(fs) THEN <<>> ELSE process_pdf(i, fs[i]) \o PdfDocsFrom(fs, i + 1)

\* The documents of the websites from position j on, in the order of the URLs
RECURSIVE WebsiteDocsFrom(_, _)
WebsiteDocsFrom(ws, j) ==
    IF j > Len(ws) THEN <<>>
    ELSE (IF ws[j] = "200" THEN << process_website(j, ws[j]) >> ELSE <<>>)
             \o WebsiteDocsFrom(ws, j + 1)

\* C22: in whatever order the gathered tasks are done, load_sources returns
\* the documents of the PDF files in the order of the files, then those of
\* the websites in the order of the URLs, then the forum documents, with
\* total_pdfs and total_websites counting them; a task that fails adds
\* nothing and leaves the results of the others as they are.
C22_ResultIndependentOfOrder ==
    load_run.pc = "returned" =>
        /\ load_run.documents =
              PdfDocsFrom(load_run.pdf_files, 1) \o WebsiteDocsFrom(load_run.websites, 1)
                  \o reddit_docs(load_run.reddit)
        /\ load_run.total_pdfs = Len(PdfDocsFrom(load_run.pdf_files, 1))
        /\ load_run.total_websites = Len(WebsiteDocsFrom(load_run.websites, 1))

\* load_sources has returned after the second task of each gather was done
\* before the first, with a failed task among them
C22_Witness ==
    /\ load_run.pc = "returned"
    /\ load_run.pdf_order = << 2, 1 >>
    /\ load_run.website_order = << 2, 1 >>
    /\ load_run.pdf_files[1].pages = 2
    /\ ~load_run.pdf_files[2].ok
    /\ load_run.websites = << "200", "raised" >>
    /\ Len(load_run.documents) = 3 + load_run.reddit

(***************************************************************************)
(* Properties of process_query.                                            *)
(***************************************************************************)
\* C23 (as claimed): a request that begins with the cancel flag set does not
\* call get_answer, and the flag is consulted at most once in a request.
C23_CancelAtStartHonoured ==
    /\ query_run.cancel_at_start => ~query_run.called
    /\ query_run.checks <= 1

=============================================================================
